---------------------------- MODULE Spec2Model ----------------------------
(***************************************************************************)
(* A model of the software rasteriser of html5-typescript-3d-software-     *)
(* engine: the Blitter's pixel buffer and clip rectangle, Color4 with its   *)
(* packed-value cache, the pixel primitives, the Liang-Barsky clipper, the  *)
(* DDA and Bresenham line rasterisers and the flat scanline triangle        *)
(* filler, and the frame loop of the loader.                                *)
(*                                                                          *)
(* Numbers.  A TypeScript number is an IEEE-754 binary64 value: the sums,   *)
(* differences, products and quotients of the program are the exact results *)
(* rounded to the nearest value, as the operators Add, Sub, Mul and Div     *)
(* below compute them.  The geometry a result is measured against (where    *)
(* the triangle or the segment really is) is computed on the arguments of   *)
(* the call with exact rationals.  The 32-bit packed colours and the        *)
(* elements of the Uint32Array are represented by the signed 32-bit integer *)
(* with the same bits (the value the bitwise operators of the source work   *)
(* on).                                                                     *)
(*                                                                          *)
(* A behaviour is one session of a caller: the blitter is created, the      *)
(* caller may use the colour object's public interface, and then issues     *)
(* one call of the drawing interface, whose arguments, pixel writes and     *)
(* result are kept in call, writes and ret.  A caller of the geometry       *)
(* classes holds Point2D objects, kept by reference in heap, and a          *)
(* Triangle2D of three of them.                                             *)
(***************************************************************************)
EXTENDS Integers, Sequences, FiniteSets, TLC

VARIABLES
    width,       \* Blitter.width
    height,      \* Blitter.height
    clipping,    \* Blitter.clipping: the four Int16 bounds
    backbuffer,  \* Blitter.backbuffer32: index -> packed pixel
    before,      \* the backbuffer at entry of the last drawing call
    color,       \* the Color4 object the caller draws with
    pc,          \* the caller's position: "ready", "done" or "again", "loop"
                 \* inside drawLineBresenham, "looping" in the frame loop
    call,        \* the last drawing call: its name and arguments
    writes,      \* the element writes the last call issued, in order
    ret,         \* what the last call returned
    heap,        \* the Point2D objects made so far: reference -> its x and y
    triangle,    \* the caller's Triangle2D: the references in its a, b and c
    loop         \* the local variables of a running drawLineBresenham, or those
                 \* of the loader with the browser's list of frame callbacks

vars == <<width, height, clipping, backbuffer, before, color, pc, call, writes, ret,
          heap, triangle, loop>>

-----------------------------------------------------------------------------
(* Bounds of the model.                                                     *)

\* Buffers of 1..MaxWidth by 1..MaxHeight pixels are created.
MaxWidth == 2
MaxHeight == 2
\* Grid coordinates reach from -Reach to +Reach.
Reach == 2
\* Triangles inside the larger buffer have integer coordinates 0..Span.
Span == 6
\* Segments across the buffer start up to FarReach left of it and end up to
\* FarReach right of its left edge.
FarReach == 13

-----------------------------------------------------------------------------
(* Natural numbers of any size, for the significands of the numbers: a      *)
(* little-endian sequence of limbs below 2^15 without leading zero limbs;   *)
(* <<>> is 0.                                                               *)

Abs(n) == IF n < 0 THEN -n ELSE n
Max(a, b) == IF a > b THEN a ELSE b
Min(a, b) == IF a < b THEN a ELSE b


Base == 2 ^ 15

Limb(a, i) == IF i <= Len(a) THEN a[i] ELSE 0

RECURSIVE BTrim(_)
BTrim(a) == IF a # <<>> /\ a[Len(a)] = 0 THEN BTrim(SubSeq(a, 1, Len(a) - 1)) ELSE a

RECURSIVE BNat(_)
BNat(n) == IF n = 0 THEN <<>> ELSE <<n % Base>> \o BNat(n \div Base)

RECURSIVE BInt(_)
BInt(a) == IF a = <<>> THEN 0 ELSE a[1] + Base * BInt(Tail(a))

RECURSIVE BCmpFrom(_, _, _)
BCmpFrom(a, b, i) ==
    IF i = 0 THEN 0
    ELSE IF a[i] # b[i] THEN (IF a[i] < b[i] THEN -1 ELSE 1)
    ELSE BCmpFrom(a, b, i - 1)
\* -1, 0 or 1 as a < b, a = b or a > b.
BCmp(a, b) ==
    IF Len(a) # Len(b) THEN (IF Len(a) < Len(b) THEN -1 ELSE 1)
    ELSE BCmpFrom(a, b, Len(a))

RECURSIVE BAddFrom(_, _, _, _)
BAddFrom(a, b, i, carry) ==
    IF i > Len(a) /\ i > Len(b)
    THEN (IF carry = 0 THEN <<>> ELSE <<carry>>)
    ELSE LET t == Limb(a, i) + Limb(b, i) + carry
         IN  <<t % Base>> \o BAddFrom(a, b, i + 1, t \div Base)
BAdd(a, b) == BAddFrom(a, b, 1, 0)

RECURSIVE BSubFrom(_, _, _, _)
BSubFrom(a, b, i, borrow) ==
    IF i > Len(a) THEN <<>>
    ELSE LET t == a[i] - Limb(b, i) - borrow
         IN  <<t % Base>> \o BSubFrom(a, b, i + 1, IF t < 0 THEN 1 ELSE 0)
\* a - b for a >= b.
BSub(a, b) == BTrim(BSubFrom(a, b, 1, 0))

RECURSIVE BMulLimbFrom(_, _, _, _)
BMulLimbFrom(a, k, i, carry) ==
    IF i > Len(a)
    THEN (IF carry = 0 THEN <<>> ELSE <<carry>>)
    ELSE LET t == a[i] * k + carry
         IN  <<t % Base>> \o BMulLimbFrom(a, k, i + 1, t \div Base)
\* a * k + c for a limb k and a carry c.
BMulLimb(a, k, c) == IF k = 0 THEN BNat(c) ELSE BMulLimbFrom(a, k, 1, c)

BShiftLimbs(a, n) == IF a = <<>> THEN <<>> ELSE [i \in 1 .. n |-> 0] \o a

RECURSIVE BMulFrom(_, _, _)
BMulFrom(a, b, j) ==
    IF j > Len(b) THEN <<>>
    ELSE BAdd(BMulLimb(a, b[j], 0), BShiftLimbs(BMulFrom(a, b, j + 1), 1))
BMul(a, b) == BMulFrom(a, b, 1)

\* a * 2^k
BShl(a, k) == IF k = 0 THEN a ELSE BShiftLimbs(BMulLimb(a, 2 ^ (k % 15), 0), k \div 15)

\* A division result <<quotient, remainder>> with the digit q put below the
\* quotient, and with the leading zero limbs of the quotient removed.
BPushDigit(r, q) == <<Append(r[1], q), r[2]>>
BTrimQuotient(r) == <<BTrim(r[1]), r[2]>>

RECURSIVE BDivLimbFrom(_, _, _, _)
BDivLimbFrom(a, d, i, rem) ==
    IF i = 0 THEN <<<<>>, rem>>
    ELSE BPushDigit(BDivLimbFrom(a, d, i - 1, (rem * Base + a[i]) % d),
                    (rem * Base + a[i]) \div d)
\* <<a div d, a mod d>> for a limb d > 0, the remainder as an integer.
BDivLimb(a, d) == BTrimQuotient(BDivLimbFrom(a, d, Len(a), 0))

\* a div 2^k
BShr(a, k) ==
    LET n == k \div 15
        high == IF n >= Len(a) THEN <<>> ELSE SubSeq(a, n + 1, Len(a))
    IN  IF k = 0 THEN a
        ELSE IF k % 15 = 0 THEN high ELSE BDivLimb(high, 2 ^ (k % 15))[1]

RECURSIVE IntBitLen(_)
IntBitLen(n) == IF n = 0 THEN 0 ELSE 1 + IntBitLen(n \div 2)
\* The number of bits of a.
BBitLen(a) == IF a = <<>> THEN 0 ELSE (Len(a) - 1) * 15 + IntBitLen(a[Len(a)])

RECURSIVE IntTrailingZeros(_)
IntTrailingZeros(n) == IF n % 2 = 1 THEN 0 ELSE 1 + IntTrailingZeros(n \div 2)
RECURSIVE BTrailingZerosFrom(_, _)
BTrailingZerosFrom(a, i) ==
    IF a[i] = 0 THEN 15 + BTrailingZerosFrom(a, i + 1) ELSE IntTrailingZeros(a[i])
\* The number of zero bits below the lowest one bit of a > 0.
BTrailingZeros(a) == BTrailingZerosFrom(a, 1)

RECURSIVE BQuotientLimb(_, _, _)
\* The largest limb q <= guess with d * q <= r.
BQuotientLimb(r, d, guess) ==
    IF BCmp(BMulLimb(d, guess, 0), r) > 0 THEN BQuotientLimb(r, d, guess - 1) ELSE guess

RECURSIVE BDivLongFrom(_, _, _, _)
\* One digit of the long division of a by d: t is the remainder so far with
\* the limb a[i] put below it, q the digit, guessed from the two top limbs.
BDivLongStep(a, d, i, t, q) ==
    BPushDigit(BDivLongFrom(a, d, i - 1, BSub(t, BMulLimb(d, q, 0))), q)
BDivLongDigit(a, d, i, t) ==
    BDivLongStep(a, d, i, t,
        BQuotientLimb(t, d, Min(Base - 1,
            (Limb(t, Len(d) + 1) * Base + Limb(t, Len(d))) \div d[Len(d)])))
BDivLongFrom(a, d, i, rem) ==
    IF i = 0 THEN <<<<>>, rem>> ELSE BDivLongDigit(a, d, i, BTrim(<<a[i]>> \o rem))

\* <<a div d, a mod d>> for d > 0: short division by one limb, else long
\* division limb by limb, on a and d scaled by 2^k to fill the top limb of d
\* (the remainder is scaled with them).
BDivShort(r) == <<r[1], BNat(r[2])>>
BDivLong(a, d) == BTrimQuotient(BDivLongFrom(a, d, Len(a), <<>>))
BDivScaled(a, d, k) == BDivLong(BShl(a, k), BShl(d, k))
BDivMod(a, d) ==
    IF Len(d) = 1 THEN BDivShort(BDivLimb(a, d[1]))
    ELSE BDivScaled(a, d, 15 - IntBitLen(d[Len(d)]))

-----------------------------------------------------------------------------
(* The numbers of the program: IEEE-754 binary64 values, as TypeScript's    *)
(* number.  A finite value is s * m * 2^e with the sign s in {-1, 0, 1}, the *)
(* significand m an odd natural number below 2^53 (<<>> for zero) and the    *)
(* exponent e an integer, so every value has one representation.  Sums,      *)
(* products and quotients are the exact result rounded to the nearest        *)
(* value, ties to the even significand.  The values of the model stay far    *)
(* from overflow and from the subnormal range; NaN, the infinities and the   *)
(* sign of zero are not represented.                                         *)

Zero == [s |-> 0, m |-> <<>>, e |-> 0]

\* s * M * 2^e for a natural number M of at most 53 bits, as a number: the tz
\* trailing zero bits of M go into the exponent.
NormalOdd(s, M, e, tz) == [s |-> s, m |-> BShr(M, tz), e |-> e + tz]
Normal(s, M, e) == IF M = <<>> THEN Zero ELSE NormalOdd(s, M, e, BTrailingZeros(M))

\* s * M * 2^e rounded to the nearest number; sticky says that the exact value
\* is a little above M * 2^e (the quotient of a division with a remainder).
\* With n > 53 bits, M is cut to its 53 high bits q, and the d = n - 53 bits
\* cut off are compared with half a unit of q (c): q goes up when they are
\* more, or when they are the half and q is odd (ties to even).
RoundUp(q, c, sticky) ==
    IF c > 0 \/ (c = 0 /\ (sticky \/ q[1] % 2 = 1)) THEN BAdd(q, <<1>>) ELSE q
RoundHigh(M, e, sticky, d, q) ==
    <<RoundUp(q, BCmp(BSub(M, BShl(q, d)), BShl(<<1>>, d - 1)), sticky), e + d>>
RoundCut(M, e, sticky, n) ==
    IF n <= 53 THEN <<M, e>> ELSE RoundHigh(M, e, sticky, n - 53, BShr(M, n - 53))
RoundMade(s, r) == Normal(s, r[1], r[2])
Round(s, M, e, sticky) == RoundMade(s, RoundCut(M, e, sticky, BBitLen(M)))

\* The integer n as a number, and k / 2.
Num(n) == Normal(IF n < 0 THEN -1 ELSE 1, BNat(Abs(n)), 0)
Half(k) == Normal(IF k < 0 THEN -1 ELSE 1, BNat(Abs(k)), -1)

Neg(x) == [x EXCEPT !.s = -x.s]
AbsNum(x) == [x EXCEPT !.s = Abs(x.s)]
IsZero(x) == x.s = 0

\* x + y for x, y # 0: the significands X and Y brought to the common
\* exponent e, their exact sum or difference <<sign, magnitude>> (c compares
\* X with Y), rounded.
AddExact(x, y, X, Y, c) ==
    IF x.s = y.s THEN <<x.s, BAdd(X, Y)>>
    ELSE IF c >= 0 THEN <<x.s, BSub(X, Y)>> ELSE <<y.s, BSub(Y, X)>>
AddAligned(x, y, X, Y) == AddExact(x, y, X, Y, BCmp(X, Y))
AddRounded(r, e) == Round(r[1], r[2], e, FALSE)
AddAt(x, y, e) == AddRounded(AddAligned(x, y, BShl(x.m, x.e - e), BShl(y.m, y.e - e)), e)
\* x + y
Add(x, y) ==
    IF x.s = 0 THEN y
    ELSE IF y.s = 0 THEN x
    ELSE AddAt(x, y, Min(x.e, y.e))

\* x - y
Sub(x, y) == Add(x, Neg(y))

\* x * y
Mul(x, y) ==
    IF x.s = 0 \/ y.s = 0 THEN Zero
    ELSE Round(x.s * y.s, BMul(x.m, y.m), x.e + y.e, FALSE)

\* x / y for x, y # 0: the quotient qr[1] of the significands, x's scaled by
\* 2^k to give at least 55 bits, rounded with the remainder qr[2] as the
\* sticky bit.
DivRounded(x, y, k, qr) == Round(x.s * y.s, qr[1], x.e - y.e - k, qr[2] # <<>>)
DivScaled(x, y, k) == DivRounded(x, y, k, BDivMod(BShl(x.m, k), y.m))
\* x / y for y # 0
Div(x, y) ==
    IF x.s = 0 THEN Zero
    ELSE IF y.m = <<1>> THEN [x EXCEPT !.s = x.s * y.s, !.e = x.e - y.e]
    ELSE DivScaled(x, y, Max(0, BBitLen(y.m) + 55 - BBitLen(x.m)))

\* x against y for x, y of one sign and not 0: by the positions tx and ty of
\* their top bits, else by their significands at the common exponent e.
CmpAligned(x, y, e) == x.s * BCmp(BShl(x.m, x.e - e), BShl(y.m, y.e - e))
CmpTops(x, y, tx, ty) ==
    IF tx # ty THEN (IF tx < ty THEN -x.s ELSE x.s) ELSE CmpAligned(x, y, Min(x.e, y.e))
\* -1, 0 or 1 as x < y, x = y or x > y.
Cmp(x, y) ==
    IF x.s # y.s THEN (IF x.s < y.s THEN -1 ELSE 1)
    ELSE IF x.s = 0 THEN 0
    ELSE CmpTops(x, y, BBitLen(x.m) + x.e, BBitLen(y.m) + y.e)

Lt(x, y) == Cmp(x, y) < 0
Le(x, y) == Cmp(x, y) <= 0
MaxNum(x, y) == IF Lt(x, y) THEN y ELSE x
MinNum(x, y) == IF Lt(y, x) THEN y ELSE x

\* Math.floor(x) and Math.ceil(x), as integers: for x with a fraction, from
\* the whole part q of its magnitude.
FloorOf(s, q) == IF s > 0 THEN q ELSE -q - 1
CeilOf(s, q) == IF s > 0 THEN q + 1 ELSE -q
Floor(x) ==
    IF x.e >= 0 THEN x.s * BInt(BShl(x.m, x.e)) ELSE FloorOf(x.s, BInt(BShr(x.m, -x.e)))
Ceil(x) ==
    IF x.e >= 0 THEN x.s * BInt(BShl(x.m, x.e)) ELSE CeilOf(x.s, BInt(BShr(x.m, -x.e)))

-----------------------------------------------------------------------------
(* Exact rationals <<n, d>> in lowest terms with d > 0: the arithmetic of   *)
(* the geometry the results are measured against.                           *)

RECURSIVE GCD(_, _)
GCD(a, b) == IF b = 0 THEN a ELSE GCD(b, a % b)

\* The rational n/d (d # 0) in lowest terms with a positive denominator.
Q(n, d) ==
    LET g == GCD(Abs(n), Abs(d))
        s == IF d < 0 THEN -1 ELSE 1
    IN  <<(s * n) \div g, (s * d) \div g>>

QInt(n) == <<n, 1>>
QAdd(p, q) == IF p[2] = 1 /\ q[2] = 1 THEN <<p[1] + q[1], 1>>
              ELSE Q(p[1] * q[2] + q[1] * p[2], p[2] * q[2])
QNeg(p) == <<-p[1], p[2]>>
QSub(p, q) == QAdd(p, QNeg(q))
QMul(p, q) == Q(p[1] * q[1], p[2] * q[2])
QDiv(p, q) == Q(p[1] * q[2], p[2] * q[1])
QLt(p, q) == p[1] * q[2] < q[1] * p[2]
QLe(p, q) == p[1] * q[2] <= q[1] * p[2]
QIsZero(p) == p[1] = 0
QMax(p, q) == IF QLt(p, q) THEN q ELSE p
QMin(p, q) == IF QLt(q, p) THEN q ELSE p
QFloor(p) == p[1] \div p[2]
QCeil(p) == -((-p[1]) \div p[2])

\* The value of the number x as a rational, for the arguments of a call
\* (whole numbers and halves).
ToQ(x) ==
    IF x.e >= 0 THEN QInt(x.s * BInt(x.m) * 2 ^ x.e)
    ELSE Q(x.s * BInt(x.m), 2 ^ (-x.e))

\* A Point2D, and the point with the whole coordinates x and y.
Point(x, y) == [x |-> x, y |-> y]
IntPoint(x, y) == Point(Num(x), Num(y))
\* The point p, and the whole point (x, y), with rational coordinates.
QPoint(p) == Point(ToQ(p.x), ToQ(p.y))
QIntPoint(x, y) == Point(QInt(x), QInt(y))

-----------------------------------------------------------------------------
(* Color4 (color4.ts).  A colour object is a record of its four channels,   *)
(* its cache (<<>> for null, <<v>> for the packed value v) and its caching  *)
(* flag.                                                                    *)

\* A clamp from below only.
ClampFromBelow(value, min, max) == Max(min, value)
\* helper.ts: clamp
Clamp(value, min, max) == Min(max, Max(min, value))

\* The constructor: every channel clamped to [0, 255], the cache null.
NewColor4(alpha, red, green, blue, caching) ==
    [alpha |-> Clamp(alpha, 0, 255), red |-> Clamp(red, 0, 255),
     green |-> Clamp(green, 0, 255), blue |-> Clamp(blue, 0, 255),
     cache |-> <<>>, caching |-> caching]

\* a << 24 on a channel a in 0..255, as the signed 32-bit integer it yields.
Shl24(a) == IF a >= 128 THEN (a - 256) * 16777216 ELSE a * 16777216
\* v >> k without the mask.
ShrUnmasked(v, k) == v \div (2 ^ k)
\* (v >> k) & 0xff on a signed 32-bit v: the arithmetic shift, then the mask.
ShrAnd255(v, k) == (v \div (2 ^ k)) % 256

\* getAABBGGRR / getAARRGGBB: the bit fields are disjoint, so | is a sum.
GetAABBGGRR(c) == Shl24(c.alpha) + c.red + c.green * 256 + c.blue * 65536
GetAARRGGBB(c) == Shl24(c.alpha) + c.red * 65536 + c.green * 256 + c.blue

\* toAABBGGRR: the object after the call (the cache filled when caching is on
\* and the cache was null) and the value returned (the cache when there is one).
AfterToAABBGGRR(c) ==
    IF c.caching /\ c.cache = <<>> THEN [c EXCEPT !.cache = <<GetAABBGGRR(c)>>] ELSE c
ToAABBGGRR(c) ==
    LET d == AfterToAABBGGRR(c) IN IF d.cache # <<>> THEN d.cache[1] ELSE GetAABBGGRR(d)

\* toAARRGGBB, likewise.
AfterToAARRGGBB(c) ==
    IF c.caching /\ c.cache = <<>> THEN [c EXCEPT !.cache = <<GetAARRGGBB(c)>>] ELSE c
ToAARRGGBB(c) ==
    LET d == AfterToAARRGGBB(c) IN IF d.cache # <<>> THEN d.cache[1] ELSE GetAARRGGBB(d)

\* fromAABBGGRR / fromARRGGBB: the channels unpacked, the cache set to the value.
FromAABBGGRR(c, v) ==
    [c EXCEPT !.alpha = ShrAnd255(v, 24), !.red = ShrAnd255(v, 0),
              !.green = ShrAnd255(v, 8), !.blue = ShrAnd255(v, 16), !.cache = <<v>>]
FromARRGGBB(c, v) ==
    [c EXCEPT !.alpha = ShrAnd255(v, 24), !.red = ShrAnd255(v, 16),
              !.green = ShrAnd255(v, 8), !.blue = ShrAnd255(v, 0), !.cache = <<v>>]

\* The predefined colours the demos draw with.
Color4Black == NewColor4(255, 0, 0, 0, TRUE)
Color4Red == NewColor4(255, 255, 0, 0, TRUE)

-----------------------------------------------------------------------------
(* Clipping (clipping.ts) and Blitter.create (blitter.ts).                  *)

\* The conversion of an integer to an element of an Int16Array.
ToInt16(n) == ((n + 32768) % 65536) - 32768

\* new Clipping(minX, minY, maxX, maxY): the bounds as the getters return them.
NewClipping(minX, minY, maxX, maxY) ==
    [minX |-> ToInt16(minX), minY |-> ToInt16(minY),
     maxX |-> ToInt16(maxX), maxY |-> ToInt16(maxY)]

\* Blitter.create: the clip rectangle made for a buffer of w x h pixels.
CreateClipping(w, h) == NewClipping(0, 0, w, h)
\* Blitter.create: the fresh backbuffer, the ImageData of a new canvas (all 0).
CreateBackbuffer(w, h) == [i \in 0 .. (w * h - 1) |-> 0]

-----------------------------------------------------------------------------
(* The pixel primitives (pixel.ts) and the element writes.                  *)

\* One element write: the pixel coordinate it is for and the index it uses.
Write(x, y, i) == [x |-> x, y |-> y, i |-> i]

\* A typed array stores only at an index inside it; any other index is ignored.
Lands(w) == 0 <= w.i /\ w.i < width * height
Landed(ws) == {ws[k].i : k \in {j \in 1 .. Len(ws) : Lands(ws[j])}}

\* A store that clears an element which holds the value already.
StoreToggled(buf, ws, v) ==
    [i \in DOMAIN buf |-> IF i \in Landed(ws) THEN (IF buf[i] = v THEN 0 ELSE v) ELSE buf[i]]
\* The buffer after the writes ws of the value v.
Store(buf, ws, v) == [i \in DOMAIN buf |-> IF i \in Landed(ws) THEN v ELSE buf[i]]

\* pixel.ts setPixel on integer x, y: the writes it issues.
SetPixelWrites(x, y, clip) ==
    IF clip /\ (x < clipping.minX \/ x >= clipping.maxX \/
                y < clipping.minY \/ y >= clipping.maxY)
    THEN <<>>
    ELSE <<Write(x, y, y * width + x)>>

\* Blitter.setPixel: the coordinates floored, then pixel.ts setPixel.
BlitterSetPixelWrites(x, y, clip) == SetPixelWrites(Floor(x), Floor(y), clip)


-----------------------------------------------------------------------------
(* The Liang-Barsky clipper (clip.ts).                                      *)

\* The working interval before the first edge test; n counts the edge tests run.
ClipStart == [ok |-> TRUE, tMin |-> Num(0), tMax |-> Num(1), n |-> 0]

\* testEdge for delta # 0 as it would be with t >= tMax and t <= tMin as the
\* rejections.
TestEdgeAtStrict(st, delta, t) ==
    IF Lt(delta, Num(0))
    THEN IF Le(st.tMax, t) THEN [st EXCEPT !.ok = FALSE, !.n = @ + 1]
         ELSE [st EXCEPT !.tMin = IF Lt(@, t) THEN t ELSE @, !.n = @ + 1]
    ELSE IF Le(t, st.tMin) THEN [st EXCEPT !.ok = FALSE, !.n = @ + 1]
         ELSE [st EXCEPT !.tMax = IF Lt(t, @) THEN t ELSE @, !.n = @ + 1]

\* testEdge for delta # 0, t being distance / delta.
TestEdgeAt(st, delta, t) ==
    IF Lt(delta, Num(0))
    THEN IF Lt(st.tMax, t) THEN [st EXCEPT !.ok = FALSE, !.n = @ + 1]
         ELSE [st EXCEPT !.tMin = IF Lt(@, t) THEN t ELSE @, !.n = @ + 1]
    ELSE IF Lt(t, st.tMin) THEN [st EXCEPT !.ok = FALSE, !.n = @ + 1]
         ELSE [st EXCEPT !.tMax = IF Lt(t, @) THEN t ELSE @, !.n = @ + 1]

\* testEdge, as one operand of the && chain: it is not run once a test failed.
TestEdge(st, delta, distance) ==
    IF ~st.ok THEN st
    ELSE IF IsZero(delta)
         THEN [st EXCEPT !.ok = Le(Num(0), distance), !.n = @ + 1]
         ELSE TestEdgeAt(st, delta, Div(distance, delta))

\* clipLineLiangBarsky: the interval after the left, right, top and bottom
\* tests, for the deltas of the segment.
ClipEdges(a, clip, deltaX, deltaY) ==
    TestEdge(
        TestEdge(
            TestEdge(
                TestEdge(ClipStart, Neg(deltaX), Sub(a.x, Num(clip.minX))),
                deltaX, Sub(Num(clip.maxX - 1), a.x)),
            Neg(deltaY), Sub(a.y, Num(clip.minY))),
        deltaY, Sub(Num(clip.maxY - 1), a.y))
ClipInterval(a, b, clip) == ClipEdges(a, clip, Sub(b.x, a.x), Sub(b.y, a.y))

\* clipLineLiangBarsky: <<>> for null, else the two clipped end points.
ClipPoints(a, st, deltaX, deltaY) ==
    IF st.ok
    THEN <<Point(Add(a.x, Mul(st.tMin, deltaX)), Add(a.y, Mul(st.tMin, deltaY))),
           Point(Add(a.x, Mul(st.tMax, deltaX)), Add(a.y, Mul(st.tMax, deltaY)))>>
    ELSE <<>>
ClipLineLiangBarsky(a, b, clip) ==
    ClipPoints(a, ClipInterval(a, b, clip), Sub(b.x, a.x), Sub(b.y, a.y))

-----------------------------------------------------------------------------
(* The line rasterisers (line.ts).                                          *)

\* The for loop of drawLineDDA as it would be with i < steps as its condition.
RECURSIVE DDALoopExclusive(_, _, _, _, _, _)
DDALoopExclusive(i, steps, x, y, stepX, stepY) ==
    IF Lt(Num(i), steps)
    THEN BlitterSetPixelWrites(x, y, FALSE)
         \o DDALoopExclusive(i + 1, steps, Add(x, stepX), Add(y, stepY), stepX, stepY)
    ELSE <<>>

\* The for loop of drawLineDDA from step i on, x and y being the accumulated
\* position: one Blitter.setPixel without clipping per step.
RECURSIVE DDALoop(_, _, _, _, _, _)
DDALoop(i, steps, x, y, stepX, stepY) ==
    IF Le(Num(i), steps)
    THEN BlitterSetPixelWrites(x, y, FALSE)
         \o DDALoop(i + 1, steps, Add(x, stepX), Add(y, stepY), stepX, stepY)
    ELSE <<>>

\* drawLineDDA after the clipping step, from its deltas and its step count.
DDASteps(a, clip, deltaX, deltaY, steps) ==
    IF IsZero(steps)
    THEN BlitterSetPixelWrites(a.x, a.y, clip)
    ELSE DDALoop(0, steps, a.x, a.y, Div(deltaX, steps), Div(deltaY, steps))
DDADeltas(a, clip, deltaX, deltaY) ==
    DDASteps(a, clip, deltaX, deltaY, MaxNum(AbsNum(deltaX), AbsNum(deltaY)))
DDAWrites(a, b, clip) == DDADeltas(a, clip, Sub(b.x, a.x), Sub(b.y, a.y))

\* The clipping step of both line functions: <<>> when the clipper returns
\* null, else the end points to draw between, clipped when clip is set.
ClippedEnds(a, b, clip) == IF clip THEN ClipLineLiangBarsky(a, b, clipping) ELSE <<a, b>>

\* drawLineDDA: the writes it issues.
DDABetween(ends, clip) == IF ends = <<>> THEN <<>> ELSE DDAWrites(ends[1], ends[2], clip)
DrawLineDDAWrites(a, b, clip) == DDABetween(ClippedEnds(a, b, clip), clip)

\* The while loop of drawLineBresenham from the pixel (x0, y0) on.
RECURSIVE BresenhamLoop(_, _, _, _, _, _, _, _, _)
BresenhamLoop(x0, y0, x1, y1, deltaX, deltaY, stepX, stepY, error) ==
    LET doubleError == 2 * error
        horizontal == doubleError > -deltaY
        vertical == doubleError < deltaX
    IN  BlitterSetPixelWrites(Num(x0), Num(y0), FALSE)
        \o (IF x0 = x1 /\ y0 = y1
            THEN <<>>
            ELSE BresenhamLoop(
                     IF horizontal THEN x0 + stepX ELSE x0,
                     IF vertical THEN y0 + stepY ELSE y0,
                     x1, y1, deltaX, deltaY, stepX, stepY,
                     (IF horizontal THEN error - deltaY ELSE error)
                         + (IF vertical THEN deltaX ELSE 0)))

\* drawLineBresenham after the clipping step, from the floored coordinates.
BresenhamFloored(x0, y0, x1, y1) ==
    BresenhamLoop(x0, y0, x1, y1, Abs(x1 - x0), Abs(y1 - y0),
                  IF x0 < x1 THEN 1 ELSE -1, IF y0 < y1 THEN 1 ELSE -1,
                  Abs(x1 - x0) - Abs(y1 - y0))
BresenhamWrites(a, b) == BresenhamFloored(Floor(a.x), Floor(a.y), Floor(b.x), Floor(b.y))

\* drawLineBresenham: the writes it issues.
BresenhamBetween(ends) == IF ends = <<>> THEN <<>> ELSE BresenhamWrites(ends[1], ends[2])
DrawLineBresenhamWrites(a, b, clip) == BresenhamBetween(ClippedEnds(a, b, clip))

-----------------------------------------------------------------------------
(* Triangle2D.rasterOrder (triangle2d.ts) and the flat scanline filler      *)
(* (flat-scanline.ts).                                                      *)

\* The swap of v[i] and v[j] when the condition holds.
SwapIf(cond, v, i, j) == IF cond THEN [v EXCEPT ![i] = v[j], ![j] = v[i]] ELSE v

\* A sort step that compares x where rasterOrder compares y.
SortYByX(v, i, j) == SwapIf(Lt(v[j].x, v[i].x), v, i, j)
\* rasterOrder, one step of the sort by y: v[i] and v[j] are swapped when
\* v[j].y < v[i].y.
SortY(v, i, j) == SwapIf(Lt(v[j].y, v[i].y), v, i, j)
\* rasterOrder as it would be without its winding fixes.
FixWindingNever(v, i, j) == v
\* rasterOrder, one winding fix: a flat pair v[i], v[j] is put left to right.
FixWinding(v, i, j) == SwapIf(v[i].y = v[j].y /\ Lt(v[j].x, v[i].x), v, i, j)

\* rasterOrder: three conditional swaps on y, then the two flat-pair fixes.
RasterOrder(a, b, c) ==
    FixWinding(FixWinding(SortY(SortY(SortY(<<a, b, c>>, 1, 2), 2, 3), 1, 2), 1, 2), 2, 3)

\* The inner loop of rasterScanlines: one write per x of the span of row y.
SpanWrites(y, position, xStart, xEnd) ==
    [k \in 1 .. Max(0, xEnd - xStart) |->
        Write(xStart + k - 1, y, position + xStart + k - 1)]

\* The outer loop of rasterScanlines from row y on.
RECURSIVE ScanlineLoop(_, _, _, _, _, _, _, _)
ScanlineLoop(w, y, clampedYEnd, position, xLeft, xRight, slopeLeft, slopeRight) ==
    IF y < clampedYEnd
    THEN SpanWrites(y, position, Max(0, Ceil(xLeft)), Min(w, Ceil(xRight)))
         \o ScanlineLoop(w, y + 1, clampedYEnd, position + w,
                         Add(xLeft, slopeLeft), Add(xRight, slopeRight),
                         slopeLeft, slopeRight)
    ELSE <<>>

\* rasterScanlines as it would be without the clamp of the rows to [0, h).
RasterScanlinesUnclamped(w, h, yStart, yEnd, xLeft, xRight, slopeLeft, slopeRight) ==
    ScanlineLoop(w, yStart, yEnd, yStart * w, xLeft, xRight, slopeLeft, slopeRight)

\* rasterScanlines: the rows clamped to the buffer, then the loop.
RasterScanlines(w, h, yStart, yEnd, xLeft, xRight, slopeLeft, slopeRight) ==
    LET clampedYStart == Max(0, yStart)
        clampedYEnd == Min(h, yEnd)
    IN  ScanlineLoop(w, clampedYStart, clampedYEnd, clampedYStart * w,
                     xLeft, xRight, slopeLeft, slopeRight)

\* One call of rasterScanlines: its arguments after width and height.
Scan(yStart, yEnd, xLeft, xRight, slopeLeft, slopeRight) ==
    [yStart |-> yStart, yEnd |-> yEnd, xLeft |-> xLeft, xRight |-> xRight,
     slopeLeft |-> slopeLeft, slopeRight |-> slopeRight]

\* fillFlatTop, v0 and v1 the top pair and v2 the bottom vertex: the calls of
\* rasterScanlines it makes, none or one.
FlatTopScan(v0, v1, v2, dyLeft, dyRight) ==
    IF IsZero(dyLeft) \/ IsZero(dyRight) THEN <<>>
    ELSE <<Scan(Ceil(v0.y), Ceil(v2.y), v0.x, v1.x,
                Div(Sub(v2.x, v0.x), dyLeft), Div(Sub(v2.x, v1.x), dyRight))>>
FillFlatTop(v0, v1, v2) == FlatTopScan(v0, v1, v2, Sub(v2.y, v0.y), Sub(v2.y, v1.y))

\* fillFlatBottom, v0 the top vertex and v1 and v2 the bottom pair, likewise.
FlatBottomScan(v0, v1, v2, dyLeft, dyRight) ==
    IF IsZero(dyLeft) \/ IsZero(dyRight) THEN <<>>
    ELSE <<Scan(Ceil(v0.y), Ceil(v1.y), v0.x, v0.x,
                Div(Sub(v1.x, v0.x), dyLeft), Div(Sub(v2.x, v0.x), dyRight))>>
FillFlatBottom(v0, v1, v2) == FlatBottomScan(v0, v1, v2, Sub(v1.y, v0.y), Sub(v2.y, v0.y))

\* fillFlatScanline, the general triangle: split at the row of v1 by the
\* point v3 of the edge v0-v2 at t, the bottom-flat part then the top-flat
\* part, each with its flat pair left to right.
SplitParts(v0, left, right, v2) ==
    FillFlatBottom(v0, left, right) \o FillFlatTop(left, right, v2)
SplitOrdered(v0, v1, v2, v3, v1Left) ==
    SplitParts(v0, IF v1Left THEN v1 ELSE v3, IF v1Left THEN v3 ELSE v1, v2)
SplitAt(v0, v1, v2, v3) == SplitOrdered(v0, v1, v2, v3, Lt(v1.x, v3.x))
SplitScans(v0, v1, v2, t) ==
    SplitAt(v0, v1, v2, Point(Add(v0.x, Mul(t, Sub(v2.x, v0.x))), v1.y))

\* fillFlatScanline on the vertices in raster order: the calls of
\* rasterScanlines, in order.
OrderedScans(v0, v1, v2) ==
    IF v1.y = v2.y THEN FillFlatBottom(v0, v1, v2)
    ELSE IF v0.y = v1.y THEN FillFlatTop(v0, v1, v2)
    ELSE SplitScans(v0, v1, v2, Div(Sub(v1.y, v0.y), Sub(v2.y, v0.y)))
SortedScans(v) == OrderedScans(v[1], v[2], v[3])
\* fillFlatScanline: the calls of rasterScanlines for the triangle (a, b, c).
FillFlatScanlineScans(a, b, c) == SortedScans(RasterOrder(a, b, c))

\* The writes of the calls scans[k..] of rasterScanlines.
RECURSIVE ScansWrites(_, _, _, _)
ScansWrites(w, h, scans, k) ==
    IF k > Len(scans) THEN <<>>
    ELSE RasterScanlines(w, h, scans[k].yStart, scans[k].yEnd,
                         scans[k].xLeft, scans[k].xRight,
                         scans[k].slopeLeft, scans[k].slopeRight)
         \o ScansWrites(w, h, scans, k + 1)

\* fillFlatScanline: the writes it issues into a buffer of w x h pixels.
FillFlatScanlineWrites(w, h, a, b, c) ==
    ScansWrites(w, h, FillFlatScanlineScans(a, b, c), 1)

-----------------------------------------------------------------------------
(* The inputs the callers of the model draw from.                           *)

\* The buffer sizes created.
Sizes == (1 .. MaxWidth) \X (1 .. MaxHeight)
\* The larger buffer of the worked examples: 11 x 11 holds the triangle
\* (0,0),(10,0),(5,10); 100 x 100 gives the clip rectangle (0,0,100,100).
ExampleSize == <<11, 11>>
ExampleClipSize == <<100, 100>>

\* The colour objects a caller constructs: alpha below and above 128, red and
\* blue at both ends, caching on and off.
Colors == {NewColor4(al, r, 0, b, cch) :
              al \in {128, 255}, r \in {0, 255}, b \in {0, 255}, cch \in BOOLEAN}

\* Coordinates on the half-integer grid from -Reach to Reach.
Halves == {Half(k) : k \in (-2 * Reach) .. (2 * Reach)}
\* Integer coordinates from -Reach to Reach.
Wholes == {Num(k) : k \in (-Reach) .. Reach}

HalfPoints == {Point(x, y) : x \in Halves, y \in Halves}
WholePoints == {Point(x, y) : x \in Wholes, y \in Wholes}

\* A call of the drawing interface: its name, its points and its clip flag.
Call(op, pts, clip) == [op |-> op, pts |-> pts, clip |-> clip]

SetPixelCall(p, clip) == Call("setPixel", <<p>>, clip)
LineCall(op, a, b, clip) == Call(op, <<a, b>>, clip)
ClipCall(a, b) == Call("clipLineLiangBarsky", <<a, b>>, TRUE)
FillCall(a, b, c) == Call("fillFlatScanline", <<a, b, c>>, FALSE)
\* Two fills in a row: the triangle (p, q, r), then the triangle (q, p, s).
FillPairCall(p, q, r, s) == Call("fillFlatScanline", <<p, q, r, s>>, FALSE)

\* The points with integer coordinates from -Reach to Reach, and from 0 to
\* Span, numbered row by row from 0.
WholeSide == 2 * Reach + 1
WholeAt(n) == IntPoint((n % WholeSide) - Reach, (n \div WholeSide) - Reach)
SpanAt(n) == IntPoint(n % (Span + 1), n \div (Span + 1))
\* The worked example (0,0),(10,0),(5,10).
ExampleTriangle == <<IntPoint(0, 0), IntPoint(10, 0), IntPoint(5, 10)>>
\* The worked examples of the clipper: (-10,5)->(110,5) and (-20,-20)->(-10,-10).
ExampleAcross == <<IntPoint(-10, 5), IntPoint(110, 5)>>
ExampleLeftOf == <<IntPoint(-20, -20), IntPoint(-10, -10)>>
\* Horizontal segments across the buffer, from left of it to right of its
\* left edge.
FarLeft == {Num(-k) : k \in 1 .. FarReach}
FarRight == {Num(k) : k \in 1 .. FarReach}

\* The twice area of the triangle (a, b, c) of rational points, signed by its
\* winding.
Cross(a, b, c) ==
    QSub(QMul(QSub(b.x, a.x), QSub(c.y, a.y)), QMul(QSub(b.y, a.y), QSub(c.x, a.x)))
Sign(q) == IF q[1] > 0 THEN 1 ELSE IF q[1] < 0 THEN -1 ELSE 0

\* The half-integer grid inside the largest buffer, for triangles that share
\* an edge.
InsideHalves == {Half(k) : k \in 0 .. (2 * Min(MaxWidth, MaxHeight))}
InsideHalfPoints == {Point(x, y) : x \in InsideHalves, y \in InsideHalves}

-----------------------------------------------------------------------------
(* The state after construction and the operations.                         *)

\* Blitter.create for a w x h buffer, the colour object c of the caller, the
\* drawing call the caller is about to make, and the Point2D objects and the
\* Triangle2D the caller has constructed.
CreatedHolding(w, h, c, next, points, tri) ==
    /\ width = w
    /\ height = h
    /\ clipping = CreateClipping(w, h)
    /\ backbuffer = CreateBackbuffer(w, h)
    /\ before = CreateBackbuffer(w, h)
    /\ color = c
    /\ pc = "ready"
    /\ call = next
    /\ writes = <<>>
    /\ ret = <<>>
    /\ heap = points
    /\ triangle = tri
    /\ loop = <<>>

\* The same for a caller that holds no geometry objects.
Created(w, h, c, next) == CreatedHolding(w, h, c, next, <<>>, <<>>)

\* What a drawing call leaves behind: its writes ws of the value
\* color.toAABBGGRR(), its result and the colour object after it.
Drawn(ws, result, colorAfter) ==
    /\ pc' = "done"
    /\ writes' = ws
    /\ ret' = result
    /\ before' = backbuffer
    /\ backbuffer' = Store(backbuffer, ws, ToAABBGGRR(color))
    /\ color' = colorAfter
    /\ UNCHANGED <<width, height, clipping, call, heap, triangle, loop>>

\* The colour object after the pixel writes ws: each one calls toAABBGGRR.
PackedFor(ws) == IF ws = <<>> THEN color ELSE AfterToAABBGGRR(color)

\* What setPixel or a line call leaves behind, ws being its writes.
DrawnPixels(ws) == Drawn(ws, <<>>, PackedFor(ws))

\* color.toAABBGGRR()
ColorToAABBGGRR ==
    /\ pc = "ready"
    /\ color' = AfterToAABBGGRR(color)
    /\ UNCHANGED <<width, height, clipping, backbuffer, before, pc, call, writes, ret, heap, triangle, loop>>

\* color.toAARRGGBB()
ColorToAARRGGBB ==
    /\ pc = "ready"
    /\ color' = AfterToAARRGGBB(color)
    /\ UNCHANGED <<width, height, clipping, backbuffer, before, pc, call, writes, ret, heap, triangle, loop>>

\* color.red = v: the channels are public fields.
ColorAssignRed(v) ==
    /\ pc = "ready"
    /\ color' = [color EXCEPT !.red = v]
    /\ UNCHANGED <<width, height, clipping, backbuffer, before, pc, call, writes, ret, heap, triangle, loop>>

\* Blitter.setPixel(x, y, color, clip)
SetPixel ==
    /\ pc = "ready"
    /\ call.op = "setPixel"
    /\ DrawnPixels(BlitterSetPixelWrites(call.pts[1].x, call.pts[1].y, call.clip))

\* drawLineDDA(blitter, a, b, color, clip, backbuffer)
DrawLineDDA ==
    /\ pc = "ready"
    /\ call.op = "drawLineDDA"
    /\ DrawnPixels(DrawLineDDAWrites(call.pts[1], call.pts[2], call.clip))

\* drawLineBresenham(blitter, a, b, color, clip, backbuffer)
DrawLineBresenham ==
    /\ pc = "ready"
    /\ call.op = "drawLineBresenham"
    /\ DrawnPixels(DrawLineBresenhamWrites(call.pts[1], call.pts[2], call.clip))

\* fillFlatScanline(blitter, new Triangle2D(a, b, c), color, backbuffer): the
\* colour is packed once, before the fill.
FillFlatScanline ==
    /\ pc = "ready"
    /\ call.op = "fillFlatScanline"
    /\ Drawn(FillFlatScanlineWrites(width, height, call.pts[1], call.pts[2], call.pts[3]),
             <<>>, AfterToAABBGGRR(color))

\* The caller's second fill, of the triangle across the edge of the first.
FillAdjacent ==
    /\ pc = "done"
    /\ call.op = "fillFlatScanline"
    /\ Len(call.pts) = 4
    /\ pc' = "again"
    /\ writes' = FillFlatScanlineWrites(width, height, call.pts[2], call.pts[1], call.pts[4])
    /\ ret' = <<>>
    /\ before' = backbuffer
    /\ backbuffer' = Store(backbuffer, writes', ToAABBGGRR(color))
    /\ color' = AfterToAABBGGRR(color)
    /\ UNCHANGED <<width, height, clipping, call, heap, triangle, loop>>

\* clipLineLiangBarsky(a, b, blitter.clipping): no write; the result is returned.
ClipLine ==
    /\ pc = "ready"
    /\ call.op = "clipLineLiangBarsky"
    /\ pc' = "done"
    /\ ret' = ClipLineLiangBarsky(call.pts[1], call.pts[2], clipping)
    /\ writes' = <<>>
    /\ before' = backbuffer
    /\ UNCHANGED <<width, height, clipping, backbuffer, color, call, heap, triangle, loop>>

-----------------------------------------------------------------------------
(* The specifications.                                                      *)

\* The pixel interface and the colour object.
Init ==
    \E s \in Sizes, c \in Colors, p \in HalfPoints, clip \in BOOLEAN :
        Created(s[1], s[2], c, SetPixelCall(p, clip))

Next ==
    \/ ColorToAABBGGRR
    \/ ColorToAARRGGBB
    \/ \E v \in {0, 255} : ColorAssignRed(v)
    \/ SetPixel

Spec == Init /\ [][Next]_vars

\* The line rasterisers: the grid segments with and without clipping, and
\* the far horizontal segments with clipping.
InitLine ==
    \/ \E s \in Sizes, op \in {"drawLineDDA", "drawLineBresenham"},
          a \in HalfPoints, b \in HalfPoints, clip \in BOOLEAN :
          Created(s[1], s[2], Color4Red, LineCall(op, a, b, clip))
    \/ \E s \in Sizes, op \in {"drawLineDDA", "drawLineBresenham"},
          x0 \in FarLeft, x1 \in FarRight, y \in Wholes :
          Created(s[1], s[2], Color4Red, LineCall(op, Point(x0, y), Point(x1, y), TRUE))

NextLine == DrawLineDDA \/ DrawLineBresenham

SpecLine == InitLine /\ [][NextLine]_vars

\* The clipper: the grid segments and the far horizontal segments against
\* the clip rectangle of each buffer, and the worked examples against
\* (0, 0, 100, 100).
InitClip ==
    \/ \E s \in Sizes, a \in HalfPoints, b \in HalfPoints :
          Created(s[1], s[2], Color4Red, ClipCall(a, b))
    \/ \E s \in Sizes, x0 \in FarLeft, x1 \in FarRight, y \in Wholes :
          Created(s[1], s[2], Color4Red, ClipCall(Point(x0, y), Point(x1, y)))
    \/ \E pts \in {ExampleAcross, ExampleLeftOf} :
          Created(ExampleClipSize[1], ExampleClipSize[2], Color4Red,
                  ClipCall(pts[1], pts[2]))

NextClip == ClipLine

SpecClip == InitClip /\ [][NextClip]_vars

\* The triangle filler: the grid triangles with their vertices in every order
\* in the largest buffer, every set of three grid points in each buffer, and
\* every triangle with three different vertices inside the larger buffer,
\* with the worked example.
InitFill ==
    \/ \E a \in WholePoints, b \in WholePoints, c \in WholePoints :
          Created(MaxWidth, MaxHeight, Color4Red, FillCall(a, b, c))
    \/ \E s \in Sizes, i \in 0 .. (WholeSide * WholeSide - 1) :
          \E j \in i .. (WholeSide * WholeSide - 1) :
             \E k \in j .. (WholeSide * WholeSide - 1) :
                Created(s[1], s[2], Color4Red, FillCall(WholeAt(i), WholeAt(j), WholeAt(k)))
    \/ \E i \in 0 .. ((Span + 1) * (Span + 1) - 1) :
          \E j \in (i + 1) .. ((Span + 1) * (Span + 1) - 1) :
             \E k \in (j + 1) .. ((Span + 1) * (Span + 1) - 1) :
                Created(ExampleSize[1], ExampleSize[2], Color4Red,
                        FillCall(SpanAt(i), SpanAt(j), SpanAt(k)))
    \/ Created(ExampleSize[1], ExampleSize[2], Color4Red,
               FillCall(ExampleTriangle[1], ExampleTriangle[2], ExampleTriangle[3]))

NextFill == FillFlatScanline

SpecFill == InitFill /\ [][NextFill]_vars

\* Two triangles sharing the edge p-q, r and s on opposite sides of it,
\* filled one after the other.
InitShared ==
    \E p \in InsideHalfPoints, q \in InsideHalfPoints,
       r \in InsideHalfPoints, s \in InsideHalfPoints :
        /\ Sign(Cross(QPoint(p), QPoint(q), QPoint(r))) = 1
        /\ Sign(Cross(QPoint(p), QPoint(q), QPoint(s))) = -1
        /\ Created(MaxWidth, MaxHeight, Color4Red, FillPairCall(p, q, r, s))

NextShared == FillFlatScanline \/ FillAdjacent

SpecShared == InitShared /\ [][NextShared]_vars

-----------------------------------------------------------------------------
(* The properties.  What a finished call is measured against.               *)

\* The pixel (x, y) is a pixel of the buffer / is inside the clip rectangle.
InRange(x, y) == 0 <= x /\ x < width /\ 0 <= y /\ y < height
InClip(x, y) ==
    /\ clipping.minX <= x /\ x < clipping.maxX
    /\ clipping.minY <= y /\ y < clipping.maxY

\* The pixels (x, y) = (i mod width, i div width) whose element the last call stored.
StoredPixels == {<<i % width, i \div width>> : i \in Landed(writes)}

LineOps == {"drawLineDDA", "drawLineBresenham"}
IsFill == call.op = "fillFlatScanline"
\* The vertices of the last fill, as the call gave them and as rational points.
Vertices == {call.pts[1], call.pts[2], call.pts[3]}
VertexA == QPoint(call.pts[1])
VertexB == QPoint(call.pts[2])
VertexC == QPoint(call.pts[3])

\* C1: with clip = false, a pixel write of setPixel, drawLineDDA or
\* drawLineBresenham whose coordinate is out of range (x < 0, x >= width,
\* y < 0 or y >= height) is dropped: it stores into no element of the buffer,
\* so no element, of another pixel or otherwise, changes because of it.
C1_OutOfRangeWriteDropped ==
    (pc = "done" /\ call.op \in LineOps \cup {"setPixel"} /\ ~call.clip) =>
        \A k \in 1 .. Len(writes) :
            ~InRange(writes[k].x, writes[k].y) => ~Lands(writes[k])

\* The buffer is the one before the call but for the element of the pixel
\* (x, y) of the clip rectangle, which holds the packing of the colour.
OnlyPixelSet(x, y) ==
    IF InClip(x, y)
    THEN backbuffer = [before EXCEPT ![y * width + x] = GetAABBGGRR(color)]
    ELSE backbuffer = before

\* C2: setPixel with clip = true leaves the buffer unchanged when the pixel is
\* outside the clip rectangle, and otherwise sets exactly the element
\* y * width + x to the AABBGGRR packing of the colour's channels.
C2_ClippedSetPixelEffect ==
    (pc = "done" /\ call.op = "setPixel" /\ call.clip) =>
        OnlyPixelSet(Floor(call.pts[1].x), Floor(call.pts[1].y))

\* C3: every element fillFlatScanline writes has the index row * width + x of
\* a pixel with 0 <= x < width and 0 <= row < height, wherever the vertices of
\* the triangle are.
C3_FillWritesInRange ==
    (pc = "done" /\ IsFill) =>
        \A k \in 1 .. Len(writes) :
            /\ InRange(writes[k].x, writes[k].y)
            /\ writes[k].i = writes[k].y * width + writes[k].x

\* A fill that wrote pixels although a vertex of its triangle is above or left
\* of the buffer and another one below or right of it.
C3_Witness ==
    /\ pc = "done" /\ IsFill /\ writes # <<>>
    /\ \E v \in Vertices : v.x.s < 0 \/ v.y.s < 0
    /\ \E v \in Vertices : Floor(v.x) >= width \/ Floor(v.y) >= height

\* The pixels one call of rasterScanlines writes with no buffer bounds: the
\* rows from y to yEnd - 1 unclamped, and in each row the span from
\* ceil(xLeft) to ceil(xRight) - 1 unclamped, the edges advanced by their
\* slopes from row to row as the program advances them.
RECURSIVE UnboundedRows(_, _, _, _, _, _)
UnboundedRows(y, yEnd, xLeft, xRight, slopeLeft, slopeRight) ==
    IF y < yEnd
    THEN {<<x, y>> : x \in Ceil(xLeft) .. (Ceil(xRight) - 1)}
         \cup UnboundedRows(y + 1, yEnd, Add(xLeft, slopeLeft), Add(xRight, slopeRight),
                            slopeLeft, slopeRight)
    ELSE {}
\* The pixels the fill of (a, b, c) writes with no buffer bounds.
UnboundedScans(scans) ==
    UNION {UnboundedRows(scans[k].yStart, scans[k].yEnd, scans[k].xLeft,
                         scans[k].xRight, scans[k].slopeLeft, scans[k].slopeRight) :
              k \in 1 .. Len(scans)}
UnboundedFillPixels(a, b, c) == UnboundedScans(FillFlatScanlineScans(a, b, c))

\* C4: the pixels fillFlatScanline writes are the pixels the fill without
\* buffer bounds writes, intersected with the buffer, also when the top
\* vertex has y < 0.
C4_FillIsUnboundedFillClipped ==
    (pc = "done" /\ IsFill) =>
        StoredPixels = {p \in UnboundedFillPixels(call.pts[1], call.pts[2], call.pts[3]) :
                           InRange(p[1], p[2])}

\* The point p is in the closed triangle (a, b, c), which may have no area:
\* p is on no two different sides of its edges, and inside its bounding box.
InTriangle(p, a, b, c) ==
    LET sides == {Sign(Cross(a, b, p)), Sign(Cross(b, c, p)), Sign(Cross(c, a, p))}
    IN  /\ ~(1 \in sides /\ -1 \in sides)
        /\ QLe(QMin(a.x, QMin(b.x, c.x)), p.x) /\ QLe(p.x, QMax(a.x, QMax(b.x, c.x)))
        /\ QLe(QMin(a.y, QMin(b.y, c.y)), p.y) /\ QLe(p.y, QMax(a.y, QMax(b.y, c.y)))

\* The points where the line through p and q meets the line x = x0 / y = y0.
MeetsX(p, q, x0) ==
    IF p.x = q.x THEN {}
    ELSE {Point(QInt(x0), QAdd(p.y, QMul(QDiv(QSub(QInt(x0), p.x), QSub(q.x, p.x)),
                                         QSub(q.y, p.y))))}
MeetsY(p, q, y0) ==
    IF p.y = q.y THEN {}
    ELSE {Point(QAdd(p.x, QMul(QDiv(QSub(QInt(y0), p.y), QSub(q.y, p.y)),
                               QSub(q.x, p.x))), QInt(y0))}

\* The corners of the common part of the triangle (a, b, c) and the closed
\* rectangle [0, width] x [0, height]: vertices of the one inside the other,
\* and crossings of an edge with a side.
CommonCorners(a, b, c) ==
    LET edges == {<<a, b>>, <<b, c>>, <<c, a>>}
        candidates ==
            {a, b, c}
            \cup {QIntPoint(x, y) : x \in {0, width}, y \in {0, height}}
            \cup UNION {MeetsX(e[1], e[2], x0) : e \in edges, x0 \in {0, width}}
            \cup UNION {MeetsY(e[1], e[2], y0) : e \in edges, y0 \in {0, height}}
    IN  {p \in candidates :
            /\ InTriangle(p, a, b, c)
            /\ QLe(QInt(0), p.x) /\ QLe(p.x, QInt(width))
            /\ QLe(QInt(0), p.y) /\ QLe(p.y, QInt(height))}

\* The triangle has a point in [0, width) x [0, height): the common part is
\* convex, so it has such a point iff one corner has x < width and one has
\* y < height.
HasPointInBuffer(a, b, c) ==
    LET corners == CommonCorners(a, b, c)
    IN  /\ \E p \in corners : QLt(p.x, QInt(width))
        /\ \E p \in corners : QLt(p.y, QInt(height))

\* C5: the fill of a triangle with no point inside [0, width) x [0, height)
\* writes nothing: the buffer after the call is the buffer before it, also
\* when the bounding box of the triangle overlaps the buffer.
C5_OutsideTriangleWritesNothing ==
    (pc = "done" /\ IsFill /\ ~HasPointInBuffer(VertexA, VertexB, VertexC)) =>
        backbuffer = before

\* The point p is strictly inside the triangle (a, b, c) / strictly between
\* a and b on the segment a-b.
StrictlyInside(p, a, b, c) ==
    LET sides == {Sign(Cross(a, b, p)), Sign(Cross(b, c, p)), Sign(Cross(c, a, p))}
    IN  sides = {1} \/ sides = {-1}
Dot(a, b, c) ==
    QAdd(QMul(QSub(b.x, a.x), QSub(c.x, a.x)), QMul(QSub(b.y, a.y), QSub(c.y, a.y)))
StrictlyBetween(p, a, b) ==
    /\ QIsZero(Cross(a, b, p))
    /\ QLt(QInt(0), Dot(a, b, p))
    /\ QLt(Dot(a, b, p), Dot(a, b, b))

\* C6: of two triangles that share an edge and lie on opposite sides of it,
\* with vertices not restricted to integers, the second fill writes no pixel
\* the first one wrote, and every pixel strictly inside the union of the two
\* (inside one of them, or on the shared edge between its ends) is written.
C6_SharedEdgeNoOverlapNoGap ==
    (pc = "again") =>
        LET p == QPoint(call.pts[1])
            q == QPoint(call.pts[2])
            r == QPoint(call.pts[3])
            s == QPoint(call.pts[4])
        IN  /\ \A i \in Landed(writes) : before[i] = 0
            /\ \A x \in 0 .. width - 1, y \in 0 .. height - 1 :
                   (\/ StrictlyInside(QIntPoint(x, y), p, q, r)
                    \/ StrictlyInside(QIntPoint(x, y), q, p, s)
                    \/ StrictlyBetween(QIntPoint(x, y), p, q))
                   => backbuffer[y * width + x] # 0

\* The least and the greatest of a non-empty finite set of rationals.
Least(S) == CHOOSE x \in S : \A z \in S : QLe(x, z)
Greatest(S) == CHOOSE x \in S : \A z \in S : QLe(z, x)

\* Where the boundary of the triangle (a, b, c) meets the row y: the points of
\* its edges that are not horizontal, at that row.
BoundaryAt(a, b, c, y) ==
    {m.x : m \in UNION {MeetsY(e[1], e[2], y) :
                           e \in {e \in {<<a, b>>, <<b, c>>, <<c, a>>} :
                                     /\ QLe(QMin(e[1].y, e[2].y), QInt(y))
                                     /\ QLe(QInt(y), QMax(e[1].y, e[2].y))}}}

\* The pixels of the triangle (a, b, c) with integer vertices: the rows from
\* the top vertex to above the bottom one, and in each row the x from the
\* exact left boundary xL to left of the exact right boundary xR.
TrianglePixels(a, b, c) ==
    LET topY == QFloor(Least({a.y, b.y, c.y}))
        bottomY == QFloor(Greatest({a.y, b.y, c.y}))
    IN  UNION {{<<x, y>> : x \in QCeil(Least(BoundaryAt(a, b, c, y)))
                                   .. QCeil(Greatest(BoundaryAt(a, b, c, y))) - 1} :
                 y \in topY .. bottomY - 1}

\* The triangle of the last fill has integer vertices inside the buffer and
\* an area.
IntegerInside ==
    /\ \A v \in Vertices : /\ v.x.e >= 0 /\ 0 <= Floor(v.x) /\ Floor(v.x) <= width
                            /\ v.y.e >= 0 /\ 0 <= Floor(v.y) /\ Floor(v.y) <= height
    /\ ~QIsZero(Cross(VertexA, VertexB, VertexC))

\* C7: for a triangle with an area and integer vertices inside the buffer,
\* fillFlatScanline writes exactly the pixels (x, y) with topY <= y < bottomY
\* and xL(y) <= x < xR(y), xL and xR the exact left and right boundary of the
\* triangle at row y, each once; for (0,0),(10,0),(5,10) every row 0..9
\* receives a pixel and every written x is in 0..10.
C7_FillIsExact ==
    (pc = "done" /\ IsFill /\ IntegerInside) =>
        /\ StoredPixels = TrianglePixels(VertexA, VertexB, VertexC)
        /\ \A k \in 1 .. Len(writes) :
               /\ Lands(writes[k])
               /\ writes[k].i = writes[k].y * width + writes[k].x
               /\ \A j \in 1 .. Len(writes) : writes[j].i = writes[k].i => j = k
        /\ call.pts = ExampleTriangle =>
               /\ \A y \in 0 .. 9 : \E x \in 0 .. 10 : <<x, y>> \in StoredPixels
               /\ \A q \in StoredPixels : 0 <= q[1] /\ q[1] <= 10

\* The point p the program computed is in the closed rectangle
\* [minX, maxX - 1] x [minY, maxY - 1] / in the extent of the segment a-b.
InClosedClip(p) ==
    /\ Le(Num(clipping.minX), p.x) /\ Le(p.x, Num(clipping.maxX - 1))
    /\ Le(Num(clipping.minY), p.y) /\ Le(p.y, Num(clipping.maxY - 1))
InExtent(p, a, b) ==
    /\ Le(MinNum(a.x, b.x), p.x) /\ Le(p.x, MaxNum(a.x, b.x))
    /\ Le(MinNum(a.y, b.y), p.y) /\ Le(p.y, MaxNum(a.y, b.y))

IsClip == call.op = "clipLineLiangBarsky"
\* The interval the clipper ended with is ordered inside [0, 1].
OrderedInterval(st) ==
    Le(Num(0), st.tMin) /\ Le(st.tMin, st.tMax) /\ Le(st.tMax, Num(1))

\* C8: both end points clipLineLiangBarsky returns are in the closed rectangle
\* [minX, maxX - 1] x [minY, maxY - 1] and on the input segment: each is the
\* point a + t (b - a) for its t, with 0 <= tMin <= tMax <= 1, and lies in
\* the extent of the segment; (-10,5)->(110,5) against (0,0,100,100) is
\* returned as (0,5)->(99,5).
C8_ClippedEndPoints ==
    (pc = "done" /\ IsClip /\ ret # <<>>) =>
        /\ InClosedClip(ret[1]) /\ InClosedClip(ret[2])
        /\ InExtent(ret[1], call.pts[1], call.pts[2])
        /\ InExtent(ret[2], call.pts[1], call.pts[2])
        /\ OrderedInterval(ClipInterval(call.pts[1], call.pts[2], clipping))
        /\ call.pts = ExampleAcross => ret = <<IntPoint(0, 5), IntPoint(99, 5)>>

\* The rational point p is on the segment a-b / in the closed rectangle
\* [minX, maxX - 1] x [minY, maxY - 1].
OnSegment(p, a, b) ==
    /\ QIsZero(Cross(a, b, p))
    /\ QLe(QMin(a.x, b.x), p.x) /\ QLe(p.x, QMax(a.x, b.x))
    /\ QLe(QMin(a.y, b.y), p.y) /\ QLe(p.y, QMax(a.y, b.y))
QInClosedClip(p) ==
    /\ QLe(QInt(clipping.minX), p.x) /\ QLe(p.x, QInt(clipping.maxX - 1))
    /\ QLe(QInt(clipping.minY), p.y) /\ QLe(p.y, QInt(clipping.maxY - 1))

\* The segment a-b has a point in the closed clip rectangle.  Its part in the
\* rectangle is a segment, whose ends are ends of a-b or crossings with the
\* lines of the four sides.
MeetsClosedClip(a, b) ==
    \E p \in {a, b}
            \cup MeetsX(a, b, clipping.minX) \cup MeetsX(a, b, clipping.maxX - 1)
            \cup MeetsY(a, b, clipping.minY) \cup MeetsY(a, b, clipping.maxY - 1) :
        OnSegment(p, a, b) /\ QInClosedClip(p)

C10_ClippedLineStaysInside ==
    (pc = "done" /\ call.op \in LineOps /\ call.clip) =>
        /\ ClipLineLiangBarsky(call.pts[1], call.pts[2], clipping) = <<>> =>
               writes = <<>> /\ backbuffer = before
        /\ \A k \in 1 .. Len(writes) : InClip(writes[k].x, writes[k].y)

-----------------------------------------------------------------------------
(* Lines between pixels of the buffer.                                      *)

\* The worked examples (0,0)->(10,0) and (0,0)->(5,5).
ExampleRun == <<IntPoint(0, 0), IntPoint(10, 0)>>
ExampleDiagonal == <<IntPoint(0, 0), IntPoint(5, 5)>>

\* Both rasterisers, with and without clipping, on every segment between the
\* pixels (0,0)..(Span,Span) of the 11 x 11 buffer, and on the worked examples.
InitInRange ==
    \/ \E op \in {"drawLineDDA", "drawLineBresenham"}, clip \in BOOLEAN,
          i \in 0 .. ((Span + 1) * (Span + 1) - 1),
          j \in 0 .. ((Span + 1) * (Span + 1) - 1) :
          Created(ExampleSize[1], ExampleSize[2], Color4Red,
                  LineCall(op, SpanAt(i), SpanAt(j), clip))
    \/ \E op \in {"drawLineDDA", "drawLineBresenham"}, clip \in BOOLEAN,
          pts \in {ExampleRun, ExampleDiagonal} :
          Created(ExampleSize[1], ExampleSize[2], Color4Red,
                  LineCall(op, pts[1], pts[2], clip))

NextInRange == DrawLineDDA \/ DrawLineBresenham

SpecInRange == InitInRange /\ [][NextInRange]_vars

\* The sign of the integer n.
Sgn(n) == IF n > 0 THEN 1 ELSE IF n < 0 THEN -1 ELSE 0

\* The pixels the writes ws are for.
PixelsOf(ws) == {<<ws[k].x, ws[k].y>> : k \in 1 .. Len(ws)}

\* The end points of the last line call are pixels of the buffer, and the
\* segment between them is horizontal, vertical or a 45-degree diagonal.
IsAligned(x0, y0, x1, y1) ==
    x0 = x1 \/ y0 = y1 \/ Abs(x1 - x0) = Abs(y1 - y0)
InRangeAligned ==
    /\ \A k \in 1 .. 2 : /\ call.pts[k].x.e >= 0 /\ call.pts[k].y.e >= 0
                         /\ InRange(Floor(call.pts[k].x), Floor(call.pts[k].y))
    /\ IsAligned(Floor(call.pts[1].x), Floor(call.pts[1].y),
                 Floor(call.pts[2].x), Floor(call.pts[2].y))

\* The max(|dx|, |dy|) + 1 pixels stepping from (x0, y0) to (x1, y1) along an
\* axis or a diagonal.
SteppingPixels(x0, y0, x1, y1) ==
    {<<x0 + k * Sgn(x1 - x0), y0 + k * Sgn(y1 - y0)>> :
        k \in 0 .. Max(Abs(x1 - x0), Abs(y1 - y0))}
SteppingCount(x0, y0, x1, y1) == Max(Abs(x1 - x0), Abs(y1 - y0)) + 1

\* The last call wrote, and stored, exactly the pixels S, each once.
WroteExactly(S, n) ==
    /\ PixelsOf(writes) = S
    /\ StoredPixels = S
    /\ Len(writes) = n
    /\ Cardinality(S) = n

\* C11: for every in-range segment with integer end points that is
\* horizontal, vertical or a 45-degree diagonal, drawLineDDA and
\* drawLineBresenham write the same set of pixels, the max(|dx|,|dy|) + 1
\* pixels stepping from a to b; for (0,0)->(10,0) these are the 11 pixels
\* (0,0)..(10,0) and for (0,0)->(5,5) the 6 pixels (0,0),(1,1),...,(5,5).
C11_AlignedLinesAgree ==
    (pc = "done" /\ call.op \in LineOps /\ InRangeAligned) =>
        /\ WroteExactly(SteppingPixels(Floor(call.pts[1].x), Floor(call.pts[1].y),
                                       Floor(call.pts[2].x), Floor(call.pts[2].y)),
                        SteppingCount(Floor(call.pts[1].x), Floor(call.pts[1].y),
                                      Floor(call.pts[2].x), Floor(call.pts[2].y)))
        /\ PixelsOf(DrawLineDDAWrites(call.pts[1], call.pts[2], call.clip))
               = PixelsOf(DrawLineBresenhamWrites(call.pts[1], call.pts[2], call.clip))
        /\ call.pts = ExampleRun => StoredPixels = {<<x, 0>> : x \in 0 .. 10}
        /\ call.pts = ExampleDiagonal => StoredPixels = {<<x, x>> : x \in 0 .. 5}

\* drawLineDDA has drawn the diagonal (0,0)->(5,5) with clipping, in 6 writes.
C11_Witness ==
    /\ pc = "done" /\ call.op = "drawLineDDA" /\ call.clip
    /\ call.pts = ExampleDiagonal
    /\ Len(writes) = 6

-----------------------------------------------------------------------------
(* drawLineBresenham (line.ts), one iteration of its loop at a time, in the  *)
(* arithmetic of the numbers of the program.                                 *)

\* The most plots the log of one call keeps; later ones are not logged.
MaxPlots == 16

\* 2^k as a number.
PowerOfTwo(k) == [s |-> 1, m |-> <<1>>, e |-> k]

\* Math.floor(x), as a number: a number without a fraction is its own floor.
FloorNum(x) == IF x.e >= 0 THEN x ELSE Num(Floor(x))

\* Whether the whole number x is below 2^30 in magnitude.
Fits(x) == x.s = 0 \/ x.e + BBitLen(x.m) <= 30

\* The local variables of drawLineBresenham before its loop, from the end
\* points a and b after the clipping step.
BresenhamDirected(x0, y0, x1, y1, deltaX, deltaY) ==
    [x0 |-> x0, y0 |-> y0, x1 |-> x1, y1 |-> y1,
     deltaX |-> deltaX, deltaY |-> deltaY,
     stepX |-> IF Lt(x0, x1) THEN Num(1) ELSE Num(-1),
     stepY |-> IF Lt(y0, y1) THEN Num(1) ELSE Num(-1),
     error |-> Sub(deltaX, deltaY)]
BresenhamMeasured(x0, y0, x1, y1) ==
    BresenhamDirected(x0, y0, x1, y1, AbsNum(Sub(x1, x0)), AbsNum(Sub(y1, y0)))
BresenhamEntered(a, b) ==
    BresenhamMeasured(FloorNum(a.x), FloorNum(a.y), FloorNum(b.x), FloorNum(b.y))

\* The loop body after the exit test: the horizontal step, then the vertical
\* step, each with its update of the error term.
BresenhamSteppedX(l, horizontal) ==
    IF horizontal
    THEN [l EXCEPT !.error = Sub(l.error, l.deltaY), !.x0 = Add(l.x0, l.stepX)]
    ELSE l
BresenhamSteppedY(l, vertical) ==
    IF vertical
    THEN [l EXCEPT !.error = Add(l.error, l.deltaX), !.y0 = Add(l.y0, l.stepY)]
    ELSE l
BresenhamStepped(l, doubleError) ==
    BresenhamSteppedY(BresenhamSteppedX(l, Lt(Neg(l.deltaY), doubleError)),
                      Lt(doubleError, l.deltaX))
BresenhamIteration(l) == BresenhamStepped(l, Mul(Num(2), l.error))

\* The exit test of the loop.
BresenhamAtEnd(l) == l.x0 = l.x1 /\ l.y0 = l.y1

\* blitter.setPixel(x0, y0, color, false, backbuffer) on whole numbers: the
\* write at y * width + x.  An index of 2^30 or more in magnitude is outside
\* every buffer and is logged as -1, and a coordinate of that size is logged
\* as the number it is.
LoopIndex(i) == IF Fits(i) THEN Floor(i) ELSE -1
LoopCoordinate(x) == IF Fits(x) THEN Floor(x) ELSE x
LoopWrite(x, y) ==
    Write(LoopCoordinate(x), LoopCoordinate(y), LoopIndex(Add(Mul(y, Num(width)), x)))
\* The log after one more plot.
Logged(ws, w) == IF Len(ws) < MaxPlots THEN Append(ws, w) ELSE ws

\* drawLineBresenham(blitter, a, b, color, clip, backbuffer) up to its loop:
\* the clipping step and the set-up.
BresenhamEnterWith(ends) ==
    /\ pc' = (IF ends = <<>> THEN "done" ELSE "loop")
    /\ loop' = (IF ends = <<>> THEN <<>> ELSE BresenhamEntered(ends[1], ends[2]))
    /\ writes' = <<>>
    /\ ret' = <<>>
    /\ before' = backbuffer
    /\ UNCHANGED <<width, height, clipping, backbuffer, color, heap, triangle>>
BresenhamEnter(a, b, clip) ==
    /\ pc = "ready"
    /\ call.op = "none"
    /\ call' = LineCall("drawLineBresenham", a, b, clip)
    /\ BresenhamEnterWith(ClippedEnds(a, b, clip))

\* One pass of the loop: the plot, then the exit or the steps.
BresenhamPass ==
    /\ pc = "loop"
    /\ writes' = Logged(writes, LoopWrite(loop.x0, loop.y0))
    /\ backbuffer' = Store(backbuffer, <<LoopWrite(loop.x0, loop.y0)>>, ToAABBGGRR(color))
    /\ color' = AfterToAABBGGRR(color)
    /\ pc' = (IF BresenhamAtEnd(loop) THEN "done" ELSE "loop")
    /\ loop' = (IF BresenhamAtEnd(loop) THEN loop ELSE BresenhamIteration(loop))
    /\ UNCHANGED <<width, height, clipping, before, call, ret, heap, triangle>>

\* The segment from (2^53, 0) to (2^53 + 2, 0).
LargeRun == <<Point(PowerOfTwo(53), Zero), Point(Add(PowerOfTwo(53), Num(2)), Zero)>>

\* A caller that has made no call yet.
NoCall == Call("none", <<>>, FALSE)

InitBresenham == Created(MaxWidth, MaxHeight, Color4Red, NoCall)

\* The caller draws every segment of the half-integer grid, in every
\* direction, and the large one, with and without clipping.
NextBresenham ==
    \/ \E a \in HalfPoints, b \in HalfPoints, clip \in BOOLEAN : BresenhamEnter(a, b, clip)
    \/ \E clip \in BOOLEAN : BresenhamEnter(LargeRun[1], LargeRun[2], clip)
    \/ BresenhamPass

\* The call is made and its loop runs on as long as it has not returned.
SpecBresenham == InitBresenham /\ [][NextBresenham]_vars /\ WF_vars(NextBresenham)

\* The floored pixel of the point p.
PixelAt(p) == <<Floor(p.x), Floor(p.y)>>
\* max(|x1 - x0|, |y1 - y0|) between the floored pixels of a and b, as a number.
Chebyshev(a, b) ==
    MaxNum(AbsNum(Sub(FloorNum(b.x), FloorNum(a.x))),
           AbsNum(Sub(FloorNum(b.y), FloorNum(a.y))))
\* A call that has returned, its end points after the clipping step being
\* ends: the plots are those from the one floored end to the other,
\* max(|x1 - x0|, |y1 - y0|) + 1 of them.
PlottedBetween(ends) ==
    ends # <<>> =>
        /\ Num(Len(writes)) = Add(Chebyshev(ends[1], ends[2]), Num(1))
        /\ <<writes[1].x, writes[1].y>> = PixelAt(ends[1])
        /\ <<writes[Len(writes)].x, writes[Len(writes)].y>> = PixelAt(ends[2])
\* A call still in its loop: it has not yet made its last plot.
PlottingBetween(ends) == Le(Num(Len(writes)), Chebyshev(ends[1], ends[2]))

\* C12: every call of drawLineBresenham leaves its loop at its
\* (max(|x1 - x0|, |y1 - y0|) + 1)-th plot: as long as it is in the loop it has
\* made no more than max(|x1 - x0|, |y1 - y0|) plots, and when it has
\* returned it has made exactly one more, the first at the floored start
\* pixel and the last at the floored end pixel.
C12_BresenhamTerminates ==
    /\ pc = "loop" =>
           PlottingBetween(ClippedEnds(call.pts[1], call.pts[2], call.clip))
    /\ pc = "done" =>
           PlottedBetween(ClippedEnds(call.pts[1], call.pts[2], call.clip))

\* The same for the segments of the grid alone.
BresenhamTerminatesOnGrid == call.pts # LargeRun => C12_BresenhamTerminates

\* The stepped loop and the loop run at once issue the same writes.
SteppedAsAtOnce ==
    (pc = "done" /\ call.pts # LargeRun) =>
        writes = DrawLineBresenhamWrites(call.pts[1], call.pts[2], call.clip)
-----------------------------------------------------------------------------
(* Triangle2D.rasterOrder (triangle2d.ts) on the objects of a caller.        *)

\* The Point2D object at the reference r, with its reference.
Referenced(r) == [x |-> heap[r].x, y |-> heap[r].y, ref |-> r]
\* The references of the objects vs.
RefsOf(vs) == [k \in 1 .. Len(vs) |-> vs[k].ref]

\* new Triangle2D(a, b, c) on the references a, b and c.
NewTriangle2D(a, b, c) == [a |-> a, b |-> b, c |-> c]

\* triangle.rasterOrder(): the three references in the order returned; the
\* method assigns to its local variables v0, v1 and v2 only.
RasterOrderCall ==
    /\ pc = "ready"
    /\ call.op = "rasterOrder"
    /\ pc' = "done"
    /\ ret' = RefsOf(RasterOrder(Referenced(triangle.a), Referenced(triangle.b),
                                 Referenced(triangle.c)))
    /\ writes' = <<>>
    /\ before' = backbuffer
    /\ UNCHANGED <<width, height, clipping, backbuffer, color, call, heap, triangle, loop>>

\* The corners of the unit square.
UnitPoints == {IntPoint(x, y) : x \in 0 .. 1, y \in 0 .. 1}

\* A caller that has made the points a, b and c and the triangle of the
\* objects i, j and k of them, and goes on to op.
HoldingTriangle(op, a, b, c, i, j, k) ==
    CreatedHolding(MaxWidth, MaxHeight, Color4Red, Call(op, <<a, b, c>>, FALSE),
                   <<a, b, c>>, NewTriangle2D(i, j, k))

\* Every triangle of three objects on the whole grid, and the triangles that
\* use an object of the unit square more than once.
InitOrder ==
    \/ \E a \in WholePoints, b \in WholePoints, c \in WholePoints :
          HoldingTriangle("rasterOrder", a, b, c, 1, 2, 3)
    \/ \E a \in UnitPoints, b \in UnitPoints, c \in UnitPoints :
          \E i \in 1 .. 3, j \in 1 .. 3, k \in 1 .. 3 : HoldingTriangle("rasterOrder", a, b, c, i, j, k)

NextOrder == RasterOrderCall

SpecOrder == InitOrder /\ [][NextOrder]_vars

\* How often the reference r is in the sequence refs.
Occurrences(refs, r) == Cardinality({k \in 1 .. Len(refs) : refs[k] = r})
\* Whether the sequences of references are rearrangements of each other.
IsPermutation(refs, others) ==
    /\ Len(refs) = Len(others)
    /\ \A r \in DOMAIN heap : Occurrences(refs, r) = Occurrences(others, r)

\* The result of a call of rasterOrder: the three vertices of the triangle,
\* rearranged so that v0.y <= v1.y <= v2.y.
SortedVertices ==
    (pc = "done" /\ call.op = "rasterOrder") =>
        /\ IsPermutation(ret, <<triangle.a, triangle.b, triangle.c>>)
        /\ Le(heap[ret[1]].y, heap[ret[2]].y)
        /\ Le(heap[ret[2]].y, heap[ret[3]].y)

\* C13: rasterOrder returns the three vertices of the triangle, rearranged so
\* that v0.y <= v1.y <= v2.y, and no step changes the a, b and c of the
\* triangle or the coordinates of a point.
C13_RasterOrderSortsByY ==
    /\ []SortedVertices
    /\ [][triangle' = triangle /\ heap' = heap]_vars

\* A triangle given bottom first: the order returned is the reverse.
C13_Witness ==
    /\ pc = "done"
    /\ call.op = "rasterOrder"
    /\ triangle = NewTriangle2D(1, 2, 3)
    /\ ret = <<3, 2, 1>>
    /\ Lt(heap[3].y, heap[2].y)
    /\ Lt(heap[2].y, heap[1].y)

\* C14: in the result of rasterOrder every flat pair goes left to right: if
\* v0.y = v1.y then v0.x <= v1.x, and if v1.y = v2.y then v1.x <= v2.x, also
\* when all three vertices have the same y.
C14_FlatPairsLeftToRight ==
    (pc = "done" /\ call.op = "rasterOrder") =>
        /\ heap[ret[1]].y = heap[ret[2]].y => Le(heap[ret[1]].x, heap[ret[2]].x)
        /\ heap[ret[2]].y = heap[ret[3]].y => Le(heap[ret[2]].x, heap[ret[3]].x)

\* The same for the triangles that do not have all three vertices on one row.
FlatPairsLeftToRightOffRow ==
    (pc = "done" /\ call.op = "rasterOrder" /\ heap[ret[1]].y # heap[ret[3]].y) =>
        C14_FlatPairsLeftToRight
-----------------------------------------------------------------------------
(* The colour object through its whole interface.                            *)

\* The 32-bit words given to fromAABBGGRR and fromARRGGBB, as the signed
\* integers >> takes them for: 0, 0xffffffff, 0xff0000ff, 0x80000000,
\* 0x7fffffff and 0x12345678.
Words32 == {0, -1, -16776961, -2147483647 - 1, 2147483647, 305419896}

\* The values a caller assigns to a channel.
Assigned == {0, 128, 255}
\* The arguments a caller constructs a colour with: below, inside and above
\* the range of a channel.
ChannelArguments == {-1, 0, 128, 255, 256}

\* color.alpha = v, color.red = v, color.green = v or color.blue = v: the
\* channels are public fields, and the cache stays as it is.
ColorAssign(channel, v) ==
    /\ pc = "ready"
    /\ color' = [color EXCEPT ![channel] = v]
    /\ UNCHANGED <<width, height, clipping, backbuffer, before, pc, call, writes, ret, heap, triangle, loop>>

\* color.fromAABBGGRR(v)
ColorFromAABBGGRR(v) ==
    /\ pc = "ready"
    /\ color' = FromAABBGGRR(color, v)
    /\ UNCHANGED <<width, height, clipping, backbuffer, before, pc, call, writes, ret, heap, triangle, loop>>

\* color.fromARRGGBB(v)
ColorFromARRGGBB(v) ==
    /\ pc = "ready"
    /\ color' = FromARRGGBB(color, v)
    /\ UNCHANGED <<width, height, clipping, backbuffer, before, pc, call, writes, ret, heap, triangle, loop>>

\* A caller constructs a colour, then uses it in any way.
InitColor ==
    \E alpha \in ChannelArguments, red \in ChannelArguments,
       green \in ChannelArguments, blue \in ChannelArguments, caching \in BOOLEAN :
        Created(MaxWidth, MaxHeight, NewColor4(alpha, red, green, blue, caching), NoCall)

NextColor ==
    \/ ColorToAABBGGRR
    \/ ColorToAARRGGBB
    \/ \E channel \in {"alpha", "red", "green", "blue"}, v \in Assigned :
          ColorAssign(channel, v)
    \/ \E v \in Words32 : ColorFromAABBGGRR(v)
    \/ \E v \in Words32 : ColorFromARRGGBB(v)

SpecColor == InitColor /\ [][NextColor]_vars

\* C15: whatever was done to a colour, toAABBGGRR() returns
\* alpha << 24 | red | green << 8 | blue << 16 and toAARRGGBB() returns
\* alpha << 24 | red << 16 | green << 8 | blue of its channels as they are.
C15_CacheNeverStale ==
    /\ ToAABBGGRR(color) = GetAABBGGRR(color)
    /\ ToAARRGGBB(color) = GetAARRGGBB(color)
-----------------------------------------------------------------------------
(* Packing a fresh colour and unpacking the value into a new one.            *)

\* The channel values of the colours packed: both ends, and both sides of 128.
ChannelValues == {0, 1, 127, 128, 254, 255}

\* new Color4(): alpha 255, the other channels 0, caching on.
DefaultColor4 == NewColor4(255, 0, 0, 0, TRUE)

\* A caller that has constructed the colour of the channels args and is about
\* to make the call op with it.
Constructed(op, args, caching) ==
    Created(MaxWidth, MaxHeight, NewColor4(args[1], args[2], args[3], args[4], caching),
            Call(op, args, caching))

\* new Color4().fromAABBGGRR(color.toAABBGGRR())
RoundTripAABBGGRR ==
    /\ pc = "ready"
    /\ call.op = "fromAABBGGRR"
    /\ pc' = "done"
    /\ ret' = <<FromAABBGGRR(DefaultColor4, ToAABBGGRR(color))>>
    /\ color' = AfterToAABBGGRR(color)
    /\ UNCHANGED <<width, height, clipping, backbuffer, before, call, writes, heap, triangle, loop>>

\* new Color4().fromARRGGBB(color.toAARRGGBB())
RoundTripAARRGGBB ==
    /\ pc = "ready"
    /\ call.op = "fromARRGGBB"
    /\ pc' = "done"
    /\ ret' = <<FromARRGGBB(DefaultColor4, ToAARRGGBB(color))>>
    /\ color' = AfterToAARRGGBB(color)
    /\ UNCHANGED <<width, height, clipping, backbuffer, before, call, writes, heap, triangle, loop>>

InitPack ==
    \E op \in {"fromAABBGGRR", "fromARRGGBB"}, caching \in BOOLEAN,
       alpha \in ChannelValues, red \in ChannelValues,
       green \in ChannelValues, blue \in ChannelValues :
        Constructed(op, <<alpha, red, green, blue>>, caching)

NextPack == RoundTripAABBGGRR \/ RoundTripAARRGGBB

SpecPack == InitPack /\ [][NextPack]_vars

\* The four channels of a colour object.
Channels(c) == <<c.alpha, c.red, c.green, c.blue>>

\* C16: a fresh colour with channels in 0..255, packed in either order and
\* unpacked in the same order into a new colour, gives a colour with the same
\* alpha, red, green and blue, also when the packed value is negative.
C16_PackUnpackRoundTrip ==
    (pc = "done" /\ call.op \in {"fromAABBGGRR", "fromARRGGBB"}) =>
        /\ Channels(ret[1]) = call.pts
        /\ Channels(color) = call.pts

\* A round trip through a negative packed value with different channels.
C16_Witness ==
    /\ pc = "done"
    /\ call.op = "fromARRGGBB"
    /\ call.pts = <<128, 255, 1, 127>>
    /\ ret[1].cache[1] < 0
    /\ ret[1].blue = 127
-----------------------------------------------------------------------------
(* The range of the channels.                                                *)

\* A caller constructs a colour from any arguments, then unpacks words
\* into it.
InitChannels ==
    \E caching \in BOOLEAN,
       alpha \in ChannelArguments, red \in ChannelArguments,
       green \in ChannelArguments, blue \in ChannelArguments :
        Constructed("new Color4", <<alpha, red, green, blue>>, caching)

NextChannels ==
    \/ \E v \in Words32 : ColorFromAABBGGRR(v)
    \/ \E v \in Words32 : ColorFromARRGGBB(v)

SpecChannels == InitChannels /\ [][NextChannels]_vars

\* C17: every channel of a colour is in 0..255 after its construction from
\* any arguments, which are clamped, and after fromAABBGGRR and fromARRGGBB
\* of any 32-bit value.
C17_ChannelsInRange ==
    /\ \A k \in 1 .. 4 : Channels(color)[k] \in 0 .. 255
    /\ color.cache = <<>> =>
          \A k \in 1 .. 4 :
             Channels(color)[k] = (IF call.pts[k] < 0 THEN 0
                                   ELSE IF call.pts[k] > 255 THEN 255 ELSE call.pts[k])

\* A colour constructed from arguments below and above the range, after
\* fromAABBGGRR(0x80000000).
C17_Witness ==
    /\ call.op = "new Color4"
    /\ call.pts = <<-1, 256, 128, 256>>
    /\ color.cache = <<-2147483647 - 1>>
    /\ Channels(color) = <<128, 0, 0, 0>>
-----------------------------------------------------------------------------
(* Point2D (point2d.ts) and Triangle2D.rotate (triangle2d.ts) on the         *)
(* objects of a caller.  A method that returns new Point2D(...) adds an      *)
(* object to heap and returns its reference.                                 *)

\* The most objects a caller makes.
MaxObjects == 6

\* The angles a caller turns by, each with its Math.cos and Math.sin: 0, and
\* Math.PI / 2 with the cosine 6.123233995736766e-17.
NoTurn == [cos |-> Num(1), sin |-> Zero]
QuarterTurn == [cos |-> Normal(1, <<23559, 26152, 6296, 141>>, -106), sin |-> Num(1)]
Angles == {NoTurn, QuarterTurn}

\* rotate: x + dx * cos - dy * sin and y + dx * sin + dy * cos.
RotatedBy(x, y, dx, dy, cos, sin) ==
    Point(Sub(Add(x, Mul(dx, cos)), Mul(dy, sin)),
          Add(Add(y, Mul(dx, sin)), Mul(dy, cos)))
Rotated(p, angle, x, y) == RotatedBy(x, y, Sub(p.x, x), Sub(p.y, y), angle.cos, angle.sin)
\* scale, translate and clone.
Scaled(p, scale) == Point(Mul(p.x, scale), Mul(p.y, scale))
Translated(p, dx, dy) == Point(Add(p.x, dx), Add(p.y, dy))
Cloned(p) == Point(p.x, p.y)

\* A scale that also stores its result in the receiver.
AfterScaleInPlace(h, r, scale) ==
    Append([h EXCEPT ![r] = Scaled(h[r], scale)], Scaled(h[r], scale))

\* The objects after a call on the object r: the new Point2D is the last.
AfterRotate(h, r, angle, x, y) == Append(h, Rotated(h[r], angle, x, y))
AfterScale(h, r, scale) == Append(h, Scaled(h[r], scale))
AfterTranslate(h, r, dx, dy) == Append(h, Translated(h[r], dx, dy))
AfterClone(h, r) == Append(h, Cloned(h[r]))

\* What a method leaves behind: the objects h and the result.
Returned(h, result) ==
    /\ heap' = h
    /\ ret' = result
    /\ UNCHANGED <<width, height, clipping, backbuffer, before, color, pc, call, writes, triangle, loop>>

\* p.rotate(angle, x, y), p.scale(scale), p.translate(dx, dy) and p.clone()
\* on the object r.
PointRotate(r, angle, x, y) ==
    /\ call.op = "transform"
    /\ Len(heap) < MaxObjects
    /\ Returned(AfterRotate(heap, r, angle, x, y), <<Len(heap) + 1>>)
PointScale(r, scale) ==
    /\ call.op = "transform"
    /\ Len(heap) < MaxObjects
    /\ Returned(AfterScale(heap, r, scale), <<Len(heap) + 1>>)
PointTranslate(r, dx, dy) ==
    /\ call.op = "transform"
    /\ Len(heap) < MaxObjects
    /\ Returned(AfterTranslate(heap, r, dx, dy), <<Len(heap) + 1>>)
PointClone(r) ==
    /\ call.op = "transform"
    /\ Len(heap) < MaxObjects
    /\ Returned(AfterClone(heap, r), <<Len(heap) + 1>>)

\* triangle.rotate(angle, center) with the object r as the centre: its three
\* vertices rotated, and a new Triangle2D of the three new objects, returned
\* as the references in its a, b and c.
TriangleRotate(angle, r) ==
    /\ call.op = "transform"
    /\ Len(heap) + 3 <= MaxObjects
    /\ Returned(AfterRotate(AfterRotate(AfterRotate(heap, triangle.a, angle, heap[r].x, heap[r].y),
                                        triangle.b, angle, heap[r].x, heap[r].y),
                            triangle.c, angle, heap[r].x, heap[r].y),
                <<Len(heap) + 1, Len(heap) + 2, Len(heap) + 3>>)

\* The factors and the offsets of the caller.
Factors == {Num(2), Half(1)}
Offsets == {Num(1), Num(-1)}

\* A caller with the vertices of a triangle, transforming points again and
\* again.
InitTransform ==
    HoldingTriangle("transform", IntPoint(1, 0), IntPoint(0, 1), IntPoint(-1, -1), 1, 2, 3)

NextTransform ==
    \/ \E r \in DOMAIN heap, angle \in Angles, x \in {Zero, Num(1)} :
          PointRotate(r, angle, x, Zero)
    \/ \E r \in DOMAIN heap, scale \in Factors : PointScale(r, scale)
    \/ \E r \in DOMAIN heap, dx \in Offsets, dy \in Offsets : PointTranslate(r, dx, dy)
    \/ \E r \in DOMAIN heap : PointClone(r)
    \/ \E r \in DOMAIN heap, angle \in Angles : TriangleRotate(angle, r)

SpecTransform == InitTransform /\ [][NextTransform]_vars

\* The points a caller started with still have the coordinates they were
\* made with, and the triangle still has them as a, b and c.
OriginalsKept ==
    call.op = "transform" =>
        /\ \A k \in 1 .. 3 : heap[k] = call.pts[k]
        /\ triangle = NewTriangle2D(1, 2, 3)
\* A step leaves every object there is as it is, and what it returns is new.
ReceiversKept ==
    /\ \A r \in DOMAIN heap : heap'[r] = heap[r]
    /\ triangle' = triangle
    /\ ret' # <<>>
    /\ \A k \in DOMAIN ret' : ret'[k] \in DOMAIN heap' \ DOMAIN heap

\* C18: rotate, scale, translate and clone of a Point2D, and rotate of a
\* Triangle2D, return new objects and leave the x and y of every object there
\* is unchanged: after any chain of them the points a caller started with
\* have their original coordinates.
C18_TransformsMakeNewPoints ==
    /\ []OriginalsKept
    /\ [][ReceiversKept]_vars

\* The chain p.scale(2).rotate(Math.PI / 2).translate(1, -1) on the first
\* vertex.
C18_Witness ==
    /\ call.op = "transform"
    /\ Len(heap) = 6
    /\ heap[1] = call.pts[1]
    /\ heap[4] = Scaled(heap[1], Num(2))
    /\ heap[4] # heap[1]
    /\ heap[5] = Rotated(heap[4], QuarterTurn, Zero, Zero)
    /\ heap[6] = Translated(heap[5], Num(1), Num(-1))
-----------------------------------------------------------------------------
(* Clipping.inside and Clipping.outside (clipping.ts) on any rectangle.      *)

\* An inside test that leaves out the maximum.
InsideExclusive(c, x, y) ==
    /\ Le(Num(c.minX), x)
    /\ Lt(x, Num(c.maxX))
    /\ Le(Num(c.minY), y)
    /\ Lt(y, Num(c.maxY))

\* inside(x, y) and outside(x, y) of the Clipping c.
Inside(c, x, y) ==
    /\ Le(Num(c.minX), x)
    /\ Le(x, Num(c.maxX))
    /\ Le(Num(c.minY), y)
    /\ Le(y, Num(c.maxY))
Outside(c, x, y) ==
    \/ Lt(x, Num(c.minX))
    \/ Le(Num(c.maxX), x)
    \/ Lt(y, Num(c.minY))
    \/ Le(Num(c.maxY), y)

\* A caller that has constructed the Clipping c and is about to make the
\* call next on it.
HoldingClipping(c, next) ==
    /\ width = MaxWidth
    /\ height = MaxHeight
    /\ clipping = c
    /\ backbuffer = CreateBackbuffer(MaxWidth, MaxHeight)
    /\ before = CreateBackbuffer(MaxWidth, MaxHeight)
    /\ color = Color4Red
    /\ pc = "ready"
    /\ call = next
    /\ writes = <<>>
    /\ ret = <<>>
    /\ heap = <<>>
    /\ triangle = <<>>
    /\ loop = <<>>

\* What a test leaves behind: its result.
Tested(result) ==
    /\ pc' = "done"
    /\ ret' = <<result>>
    /\ UNCHANGED <<width, height, clipping, backbuffer, before, color, call, writes, heap, triangle, loop>>

\* clipping.inside(x, y)
ClippingInside ==
    /\ pc = "ready"
    /\ call.op = "inside"
    /\ Tested(Inside(clipping, call.pts[1].x, call.pts[1].y))

\* clipping.outside(x, y)
ClippingOutside ==
    /\ pc = "ready"
    /\ call.op = "outside"
    /\ Tested(Outside(clipping, call.pts[1].x, call.pts[1].y))

\* The bounds a caller gives: small ones in any order, and one beyond the
\* 16 bits of an element, stored as 2.
BoundArguments == {-1, 0, 1, 2, 65538}

\* Every rectangle of these bounds, tested at every point of the
\* half-integer grid.
InitInside ==
    \E minX \in BoundArguments, minY \in BoundArguments,
       maxX \in BoundArguments, maxY \in BoundArguments,
       op \in {"inside", "outside"}, p \in HalfPoints :
        HoldingClipping(NewClipping(minX, minY, maxX, maxY), Call(op, <<p>>, FALSE))

NextInside == ClippingInside \/ ClippingOutside

SpecInside == InitInside /\ [][NextInside]_vars

\* The point (x, y) of rational coordinates in the rectangle with both
\* maxima, and beside the rectangle without them.
InClosed(c, x, y) ==
    /\ QLe(QInt(c.minX), x) /\ QLe(x, QInt(c.maxX))
    /\ QLe(QInt(c.minY), y) /\ QLe(y, QInt(c.maxY))
InHalfOpen(c, x, y) ==
    /\ QLe(QInt(c.minX), x) /\ QLt(x, QInt(c.maxX))
    /\ QLe(QInt(c.minY), y) /\ QLt(y, QInt(c.maxY))
OnMaximum(c, x, y) == x = QInt(c.maxX) \/ y = QInt(c.maxY)

\* What inside and outside give for the point p of a call.
BothTests(c, p) == <<Inside(c, p.x, p.y), Outside(c, p.x, p.y)>>
\* The two tests against the rectangle: inside is the closed rectangle,
\* outside is the complement of the half-open one, one of the two holds, and
\* both hold exactly on the maxima of the closed rectangle.
TestsAgree(c, q, tests) ==
    /\ tests[1] <=> InClosed(c, q.x, q.y)
    /\ tests[2] <=> ~InHalfOpen(c, q.x, q.y)
    /\ tests[1] \/ tests[2]
    /\ (tests[1] /\ tests[2]) <=> (InClosed(c, q.x, q.y) /\ OnMaximum(c, q.x, q.y))

\* C19: inside(x, y) is true iff minX <= x <= maxX and minY <= y <= maxY,
\* outside(x, y) is true iff x < minX or x >= maxX or y < minY or y >= maxY;
\* no point is neither, and the points that are both are the inside points
\* with x = maxX or y = maxY.
C19_InsideAndOutside ==
    pc = "done" =>
        /\ call.op = "inside" => ret[1] = BothTests(clipping, call.pts[1])[1]
        /\ call.op = "outside" => ret[1] = BothTests(clipping, call.pts[1])[2]
        /\ TestsAgree(clipping, QPoint(call.pts[1]), BothTests(clipping, call.pts[1]))

\* A point on the right edge of a rectangle: inside, and outside as well.
C19_Witness ==
    /\ pc = "done"
    /\ call.op = "inside"
    /\ ret = <<TRUE>>
    /\ clipping = NewClipping(0, 0, 2, 2)
    /\ call.pts[1] = Point(Num(2), Half(1))
    /\ Outside(clipping, call.pts[1].x, call.pts[1].y)
-----------------------------------------------------------------------------
(* getPixel (pixel.ts, blitter.ts) after setPixel.                           *)

\* backbuffer[i]: <<v>> for the element v, <<>> for undefined at an index
\* outside the array.  An element is kept as the signed integer of its 32 bits.
ReadElement(buf, i) == IF i \in DOMAIN buf THEN <<buf[i]>> ELSE <<>>

\* new Color4().fromAABBGGRR(read).  For undefined every shift gives 0, and
\* the cache holds undefined, which toAABBGGRR and toAARRGGBB never fill and
\* pass over: the object behaves as one with an empty cache and caching off.
Unpacked(read) ==
    IF read = <<>>
    THEN [alpha |-> 0, red |-> 0, green |-> 0, blue |-> 0, cache |-> <<>>, caching |-> FALSE]
    ELSE FromAABBGGRR(DefaultColor4, read[1])

\* pixel.ts getPixel on integer x, y: <<>> for null, or the colour read.
GetPixelAt(x, y, clip) ==
    IF clip /\ (x < clipping.minX \/ x >= clipping.maxX \/
                y < clipping.minY \/ y >= clipping.maxY)
    THEN <<>>
    ELSE <<Unpacked(ReadElement(backbuffer, y * width + x))>>

\* Blitter.getPixel: the coordinates floored, then pixel.ts getPixel.
BlitterGetPixel(x, y, clip) == GetPixelAt(Floor(x), Floor(y), clip)

\* blitter.getPixel(x, y, clip) at the coordinates of the setPixel just made.
GetPixel(clip) ==
    /\ pc = "done"
    /\ call.op = "setPixel"
    /\ pc' = "again"
    /\ call' = Call("getPixel", call.pts, clip)
    /\ ret' = BlitterGetPixel(call.pts[1].x, call.pts[1].y, clip)
    /\ UNCHANGED <<width, height, clipping, backbuffer, before, color, writes, heap, triangle, loop>>

\* A caller uses a colour in any way, sets a pixel with it and reads the
\* pixel back.
NextPixel ==
    \/ ColorToAABBGGRR
    \/ ColorToAARRGGBB
    \/ \E v \in {0, 255} : ColorAssignRed(v)
    \/ SetPixel
    \/ \E clip \in BOOLEAN : GetPixel(clip)

SpecPixel == Init /\ [][NextPixel]_vars

\* The floored pixel of the point p is in the clip rectangle.
PixelInClip(p) == InClip(Floor(p.x), Floor(p.y))

\* The result of the read against the colour the pixel was set with.
ReadBack ==
    /\ (call.clip /\ ~PixelInClip(call.pts[1])) => ret = <<>>
    /\ PixelInClip(call.pts[1]) => (ret # <<>> /\ Channels(ret[1]) = Channels(color))

\* C20: getPixel with clip = true returns null for every coordinate outside
\* the clip rectangle, and for every coordinate inside it getPixel right after
\* setPixel with a colour returns a colour with the channels of that colour.
C20_GetPixelReadsBack == (pc = "again" /\ call.op = "getPixel") => ReadBack

\* The same for the colours whose cache, if any, is the AABBGGRR packing of
\* their channels.
ReadsBackUnspoiled ==
    (pc = "again" /\ call.op = "getPixel" /\ ToAABBGGRR(color) = GetAABBGGRR(color)) =>
        ReadBack

-----------------------------------------------------------------------------
(* The divisions of the core and their zero guards.                         *)

\* testEdge as one operand of the && chain: the divisor of the division it
\* executes, none when it is not run or when delta is zero.
TestEdgeDivisors(st, delta) == IF ~st.ok \/ IsZero(delta) THEN <<>> ELSE <<delta>>

\* clipLineLiangBarsky: the divisors of its four edge tests, in order.
AfterLeft(a, clip, deltaX) == TestEdge(ClipStart, Neg(deltaX), Sub(a.x, Num(clip.minX)))
AfterRight(a, clip, deltaX) ==
    TestEdge(AfterLeft(a, clip, deltaX), deltaX, Sub(Num(clip.maxX - 1), a.x))
AfterTop(a, clip, deltaX, deltaY) ==
    TestEdge(AfterRight(a, clip, deltaX), Neg(deltaY), Sub(a.y, Num(clip.minY)))
ClipEdgesDivisors(a, clip, deltaX, deltaY) ==
    TestEdgeDivisors(ClipStart, Neg(deltaX))
    \o TestEdgeDivisors(AfterLeft(a, clip, deltaX), deltaX)
    \o TestEdgeDivisors(AfterRight(a, clip, deltaX), Neg(deltaY))
    \o TestEdgeDivisors(AfterTop(a, clip, deltaX, deltaY), deltaY)
ClipLineDivisors(a, b, clip) == ClipEdgesDivisors(a, clip, Sub(b.x, a.x), Sub(b.y, a.y))

\* drawLineDDA as it would be without the test of steps against 0.
DDAStepsDivisorsUnguarded(steps) == <<steps, steps>>

\* drawLineDDA after the clipping step: the divisors of stepX and stepY.
DDAStepsDivisors(steps) == IF IsZero(steps) THEN <<>> ELSE <<steps, steps>>
DDADivisors(a, b) ==
    DDAStepsDivisors(MaxNum(AbsNum(Sub(b.x, a.x)), AbsNum(Sub(b.y, a.y))))
DDABetweenDivisors(ends) == IF ends = <<>> THEN <<>> ELSE DDADivisors(ends[1], ends[2])
DrawLineDDADivisors(a, b, clip) ==
    (IF clip THEN ClipLineDivisors(a, b, clipping) ELSE <<>>)
    \o DDABetweenDivisors(ClippedEnds(a, b, clip))

\* fillFlatTop and fillFlatBottom: the divisors of the two slopes.
FlatDivisors(dyLeft, dyRight) ==
    IF IsZero(dyLeft) \/ IsZero(dyRight) THEN <<>> ELSE <<dyLeft, dyRight>>
FillFlatTopDivisors(v0, v1, v2) == FlatDivisors(Sub(v2.y, v0.y), Sub(v2.y, v1.y))
FillFlatBottomDivisors(v0, v1, v2) == FlatDivisors(Sub(v1.y, v0.y), Sub(v2.y, v0.y))

\* fillFlatScanline on the vertices in raster order: the divisor of t, then
\* those of the two parts; v3 has the y of v1, so either of them stands for
\* the flat pair.
OrderedDivisors(v0, v1, v2) ==
    IF v1.y = v2.y THEN FillFlatBottomDivisors(v0, v1, v2)
    ELSE IF v0.y = v1.y THEN FillFlatTopDivisors(v0, v1, v2)
    ELSE <<Sub(v2.y, v0.y)>> \o FillFlatBottomDivisors(v0, v1, v1)
                             \o FillFlatTopDivisors(v1, v1, v2)
SortedDivisors(v) == OrderedDivisors(v[1], v[2], v[3])
FillFlatScanlineDivisors(a, b, c) == SortedDivisors(RasterOrder(a, b, c))

\* The divisors of the divisions the call c executes.
Divisors(c) ==
    CASE c.op = "drawLineDDA" -> DrawLineDDADivisors(c.pts[1], c.pts[2], c.clip)
      [] c.op = "clipLineLiangBarsky" -> ClipLineDivisors(c.pts[1], c.pts[2], clipping)
      [] c.op = "fillFlatScanline" -> FillFlatScanlineDivisors(c.pts[1], c.pts[2], c.pts[3])
      [] OTHER -> <<>>

\* The segments from a whole point to a point of the half-integer grid drawn
\* by the DDA and clipped, the zero-length lines at every point of the grid,
\* and the grid triangles filled, in the largest buffer.
InitDivide ==
    \/ \E a \in WholePoints, b \in HalfPoints, clip \in BOOLEAN :
          Created(MaxWidth, MaxHeight, Color4Red, LineCall("drawLineDDA", a, b, clip))
    \/ \E a \in HalfPoints, clip \in BOOLEAN :
          Created(MaxWidth, MaxHeight, Color4Red, LineCall("drawLineDDA", a, a, clip))
    \/ \E a \in HalfPoints, b \in WholePoints :
          Created(MaxWidth, MaxHeight, Color4Red, ClipCall(a, b))
    \/ \E i \in 0 .. (WholeSide * WholeSide - 1), b \in WholePoints :
          \E k \in 0 .. i :
             Created(MaxWidth, MaxHeight, Color4Red, FillCall(WholeAt(i), b, WholeAt(k)))

NextDivide == DrawLineDDA \/ ClipLine \/ FillFlatScanline

SpecDivide == InitDivide /\ [][NextDivide]_vars

\* The single write of the pixel of the point a.
PixelWrite(a) == <<Write(Floor(a.x), Floor(a.y), Floor(a.y) * width + Floor(a.x))>>
\* The point a is inside the rectangle the clipper keeps.
Kept(a) ==
    /\ Le(Num(clipping.minX), a.x) /\ Le(a.x, Num(clipping.maxX - 1))
    /\ Le(Num(clipping.minY), a.y) /\ Le(a.y, Num(clipping.maxY - 1))

NoZeroDivisor == \A k \in DOMAIN Divisors(call) : ~IsZero(Divisors(call)[k])
ZeroLengthLine == call.op = "drawLineDDA" /\ call.pts[1] = call.pts[2]
ZeroLengthPlotsOnce ==
    ZeroLengthLine =>
        /\ Divisors(call) = <<>>
        /\ ~call.clip \/ Kept(call.pts[1]) => writes = PixelWrite(call.pts[1])
        /\ call.clip /\ ~Kept(call.pts[1]) => writes = <<>>
OnOneRow ==
    /\ call.op = "fillFlatScanline"
    /\ call.pts[1].y = call.pts[2].y
    /\ call.pts[2].y = call.pts[3].y
OneRowWritesNothing == OnOneRow => writes = <<>> /\ backbuffer = before

\* C21: no division of a line, a clip or a fill has a zero divisor; a
\* zero-length line divides by nothing and plots the one pixel of a, and a
\* triangle with all its vertices on one row, the flat fill whose edge spans
\* no row, writes nothing.
C21_DivisorsNonZero ==
    pc = "done" => NoZeroDivisor /\ ZeroLengthPlotsOnce /\ OneRowWritesNothing

C21_Witness ==
    /\ pc = "done"
    /\ ZeroLengthLine
    /\ ~call.clip
    /\ writes = PixelWrite(call.pts[1])
    /\ Lands(writes[1])
    /\ backbuffer # before

-----------------------------------------------------------------------------
(* The filler and the order of the vertices of its triangle.                *)

\* The six orders of three vertices.
Orderings == {<<1, 2, 3>>, <<1, 3, 2>>, <<2, 1, 3>>, <<2, 3, 1>>, <<3, 1, 2>>, <<3, 2, 1>>}
\* The pixels fillFlatScanline stores for the vertices pts in the order o.
FilledIn(pts, o) ==
    Landed(FillFlatScanlineWrites(width, height, pts[o[1]], pts[o[2]], pts[o[3]]))

\* The points of the half-integer grid inside the largest buffer, numbered
\* row by row from 0.
InsideSide == 2 * Min(MaxWidth, MaxHeight) + 1
InsideAt(n) == Point(Half(n % InsideSide), Half(n \div InsideSide))

\* Every set of three points of the whole grid and of the half-integer grid
\* inside the buffer, given from the bottom up, and the worked example.
InitOrderings ==
    \/ \E i \in 0 .. (WholeSide * WholeSide - 1) : \E j \in 0 .. i : \E k \in 0 .. j :
          Created(MaxWidth, MaxHeight, Color4Red, FillCall(WholeAt(i), WholeAt(j), WholeAt(k)))
    \/ \E i \in 0 .. (InsideSide * InsideSide - 1) : \E j \in 0 .. i : \E k \in 0 .. j :
          Created(MaxWidth, MaxHeight, Color4Red, FillCall(InsideAt(i), InsideAt(j), InsideAt(k)))
    \/ Created(ExampleSize[1], ExampleSize[2], Color4Red,
               FillCall(ExampleTriangle[1], ExampleTriangle[2], ExampleTriangle[3]))

NextOrderings == FillFlatScanline

SpecOrderings == InitOrderings /\ [][NextOrderings]_vars

\* C22: the set of pixels a fill stores is the set the fill of the same
\* three vertices stores in each of their six orders.
C22_FillOrderIndependent ==
    pc = "done" /\ call.op = "fillFlatScanline" =>
        \A o \in Orderings : FilledIn(call.pts, o) = Landed(writes)

C22_Witness ==
    /\ pc = "done"
    /\ call.op = "fillFlatScanline"
    /\ Landed(writes) # {}
    /\ Lt(call.pts[3].y, call.pts[2].y)
    /\ Lt(call.pts[2].y, call.pts[1].y)
    /\ \A o \in Orderings : FilledIn(call.pts, o) = Landed(writes)

-----------------------------------------------------------------------------
(* A drawing call made twice (blitter.ts, line.ts, flat-scanline.ts).       *)

\* TypedArray.fill: one write per element of the buffer.
FillWrites == [k \in 1 .. (width * height) |-> Write((k - 1) % width, (k - 1) \div width, k - 1)]

\* What a call leaves behind, first or second: its writes ws of the value v
\* and the colour object after it.
Stored(ws, v, colorAfter) ==
    /\ pc' = IF pc = "ready" THEN "done" ELSE "again"
    /\ writes' = ws
    /\ ret' = <<>>
    /\ before' = backbuffer
    /\ backbuffer' = Store(backbuffer, ws, v)
    /\ color' = colorAfter
    /\ UNCHANGED <<width, height, clipping, call, heap, triangle, loop>>

\* blitter.clear(color): fill(color.toAABBGGRR()).
BlitterClear ==
    /\ pc \in {"ready", "done"}
    /\ call.op = "clear"
    /\ Stored(FillWrites, ToAABBGGRR(color), AfterToAABBGGRR(color))

\* blitter.fill(v), v an integer of 32 bits: every element gets these bits.
BlitterFill ==
    /\ pc \in {"ready", "done"}
    /\ call.op = "fill"
    /\ Stored(FillWrites, call.pts[1], color)

\* The writes of the drawing call c with the colour object as it is now.
CallWrites(c) ==
    CASE c.op = "drawLineDDA" -> DrawLineDDAWrites(c.pts[1], c.pts[2], c.clip)
      [] c.op = "drawLineBresenham" -> DrawLineBresenhamWrites(c.pts[1], c.pts[2], c.clip)
      [] c.op = "fillFlatScanline" ->
            FillFlatScanlineWrites(width, height, c.pts[1], c.pts[2], c.pts[3])

\* The caller makes the line call or the fill it has made once more, with
\* the same arguments and the same colour object.
DrawLineAgain ==
    /\ pc = "done"
    /\ call.op \in {"drawLineDDA", "drawLineBresenham"}
    /\ Stored(CallWrites(call), ToAABBGGRR(color), PackedFor(CallWrites(call)))
FillFlatScanlineAgain ==
    /\ pc = "done"
    /\ call.op = "fillFlatScanline"
    /\ Stored(CallWrites(call), ToAABBGGRR(color), AfterToAABBGGRR(color))

\* The colour objects drawn with twice: the cache empty and caching on, the
\* cache empty and caching off, and the cache holding another value.
TwiceColors ==
    {Color4Red, NewColor4(128, 0, 0, 255, FALSE), AfterToAARRGGBB(NewColor4(128, 0, 0, 255, TRUE))}
\* The values filled with, 0xff0000ff as the signed integer of its bits.
FillValues == {0, 1, -1, -16776961, 2147483647}

InitTwice ==
    \/ \E s \in Sizes, c \in Colors \cup TwiceColors :
          Created(s[1], s[2], c, Call("clear", <<>>, FALSE))
    \/ \E s \in Sizes, c \in TwiceColors, v \in FillValues :
          Created(s[1], s[2], c, Call("fill", <<v>>, FALSE))
    \/ \E c \in TwiceColors, op \in {"drawLineDDA", "drawLineBresenham"},
          a \in WholePoints, b \in WholePoints, clip \in BOOLEAN :
          Created(MaxWidth, MaxHeight, c, LineCall(op, a, b, clip))
    \/ \E op \in {"drawLineDDA", "drawLineBresenham"},
          a \in WholePoints, b \in HalfPoints, clip \in BOOLEAN :
          Created(MaxWidth, MaxHeight, Color4Red, LineCall(op, a, b, clip))
    \/ \E c \in TwiceColors, i \in 0 .. (WholeSide * WholeSide - 1) :
          \E j \in 0 .. i : \E k \in 0 .. j :
             Created(MaxWidth, MaxHeight, c, FillCall(WholeAt(i), WholeAt(j), WholeAt(k)))

NextTwice ==
    \/ BlitterClear
    \/ BlitterFill
    \/ DrawLineDDA
    \/ DrawLineBresenham
    \/ DrawLineAgain
    \/ FillFlatScanline
    \/ FillFlatScanlineAgain

SpecTwice == InitTwice /\ [][NextTwice]_vars

\* C23: the second of two identical calls of clear, fill, drawLineDDA,
\* drawLineBresenham or fillFlatScanline changes no element of the buffer.
C23_SecondCallChangesNothing ==
    /\ pc = "again" => backbuffer = before
    /\ [][pc = "done" => backbuffer' = backbuffer]_vars

C23_Witness ==
    /\ pc = "again"
    /\ call.op = "drawLineDDA"
    /\ Len(writes) > 1
    /\ Landed(writes) # {}
    /\ backbuffer = before
    /\ \E i \in DOMAIN backbuffer : backbuffer[i] # 0
    /\ \E i \in DOMAIN backbuffer : backbuffer[i] = 0

-----------------------------------------------------------------------------
(* The pixels of the end points of a line.                                  *)

\* The last call drew a line without clipping between two points inside the
\* buffer.
UnclippedInRange ==
    /\ pc = "done"
    /\ call.op \in LineOps
    /\ ~call.clip
    /\ \A k \in 1 .. 2 : InRange(Floor(call.pts[k].x), Floor(call.pts[k].y))
EndPixelsWritten == \A k \in 1 .. 2 : PixelAt(call.pts[k]) \in StoredPixels

\* C24: a line drawn without clipping between two points inside the buffer
\* writes the pixel that holds its start point and the pixel that holds its
\* end point.
C24_EndPixelsWritten == UnclippedInRange => EndPixelsWritten

\* The same for drawLineBresenham alone, and for drawLineDDA between points
\* with whole coordinates.
BresenhamEndPixelsWritten ==
    UnclippedInRange /\ call.op = "drawLineBresenham" => EndPixelsWritten
DDAWholeEndPixelsWritten ==
    UnclippedInRange /\ call.op = "drawLineDDA"
        /\ (\A k \in 1 .. 2 : call.pts[k].x.e >= 0 /\ call.pts[k].y.e >= 0)
        => EndPixelsWritten

-----------------------------------------------------------------------------
(* The loader and its frame loop (engine.ts).  The browser keeps a list of  *)
(* animation frame callbacks: a frame takes the callbacks listed so far and *)
(* runs them one after the other with the timestamp of the frame; a         *)
(* callback requested meanwhile is listed for the next frame.  A key event  *)
(* is a task of its own and never runs in the middle of a frame.  The       *)
(* clock, performance.now(), counts whole milliseconds.                     *)

\* The clock runs up to MaxTime and the loader starts at one of LoadTimes.
MaxTime == 9
LoadTimes == 0 .. 1
\* At most MaxCallbacks callbacks for main are listed or running.
MaxCallbacks == 2

LoaderCall == Call("loader", <<>>, FALSE)

\* The loader after the import of the demo: demo.initialize, the three
\* variables of the loop, the first requestAnimationFrame(main) and the
\* keydown listener.
LoaderStart(t) ==
    /\ pc = "ready"
    /\ call.op = "loader"
    /\ pc' = "looping"
    /\ loop' = [running |-> TRUE, elapsedTime |-> Num(0), lastTimestamp |-> Num(t),
                deltaTime |-> Num(0), pending |-> 1, firing |-> 0, timestamp |-> t,
                frameRenders |-> 0, now |-> t, loaded |-> t, initialized |-> 1,
                did |-> "initialize"]
    /\ UNCHANGED <<width, height, clipping, backbuffer, before, color, call, writes, ret,
                   heap, triangle>>

\* A millisecond passes.
Tick ==
    /\ pc = "looping"
    /\ loop.now < MaxTime
    /\ loop' = [loop EXCEPT !.now = @ + 1]
    /\ UNCHANGED <<width, height, clipping, backbuffer, before, color, pc, call, writes,
                   ret, heap, triangle>>

\* The browser begins a frame: the callbacks listed are the ones it will run,
\* with the time of the frame as their timestamp.
AnimationFrame ==
    /\ pc = "looping"
    /\ loop.firing = 0
    /\ loop.pending > 0
    /\ loop' = [loop EXCEPT !.firing = loop.pending, !.pending = 0,
                            !.timestamp = loop.now, !.frameRenders = 0, !.did = "frame"]
    /\ UNCHANGED <<width, height, clipping, backbuffer, before, color, pc, call, writes,
                   ret, heap, triangle>>

\* main past its test of running: it takes the times, calls demo.render and
\* blitter.blit and requests the next frame.
MainRendering(l) ==
    [l EXCEPT !.deltaTime = Div(Sub(Num(l.timestamp), l.lastTimestamp), Num(1000)),
              !.lastTimestamp = Num(l.timestamp),
              !.elapsedTime = Add(l.elapsedTime,
                                  Div(Sub(Num(l.timestamp), l.lastTimestamp), Num(1000))),
              !.firing = @ - 1, !.pending = @ + 1, !.frameRenders = @ + 1,
              !.did = "render"]

\* main as it would be without the test of running.
MainUnpaused(l) == MainRendering(l)

\* main(timestamp) on the variables l: it returns at once while paused.
MainOn(l) ==
    IF ~l.running THEN [l EXCEPT !.firing = @ - 1, !.did = "return"]
    ELSE MainRendering(l)

\* The browser runs one callback of the frame.
Main ==
    /\ pc = "looping"
    /\ loop.firing > 0
    /\ loop' = MainOn(loop)
    /\ UNCHANGED <<width, height, clipping, backbuffer, before, color, pc, call, writes,
                   ret, heap, triangle>>

\* The keydown listener for Space: running is toggled, and a resume requests
\* a frame.
KeydownOn(l) ==
    IF l.running THEN [l EXCEPT !.running = FALSE, !.did = "pause"]
    ELSE [l EXCEPT !.running = TRUE, !.pending = @ + 1, !.did = "resume"]

KeydownSpace ==
    /\ pc = "looping"
    /\ loop.firing = 0
    /\ loop.running \/ loop.pending < MaxCallbacks
    /\ loop' = KeydownOn(loop)
    /\ UNCHANGED <<width, height, clipping, backbuffer, before, color, pc, call, writes,
                   ret, heap, triangle>>

InitLoader == Created(MaxWidth, MaxHeight, Color4Red, LoaderCall)

NextLoader ==
    \/ \E t \in LoadTimes : LoaderStart(t)
    \/ Tick
    \/ AnimationFrame
    \/ Main
    \/ KeydownSpace

SpecLoader == InitLoader /\ [][NextLoader]_vars

\* C25: at most one callback for main is listed or running at any time, and
\* no frame renders more than once.
C25_OneCallbackPerFrame ==
    pc = "looping" => loop.pending + loop.firing <= 1 /\ loop.frameRenders <= 1

\* Without a Space key between a pause and the frame the property holds: as
\* long as no resume has listed a callback next to one still listed.
OneCallbackUntilResume ==
    [][pc = "looping" /\ loop.pending + loop.firing <= 1
           /\ ~(loop.pending = 1 /\ ~loop.running /\ loop'.running)
       => loop'.pending + loop'.firing <= 1]_vars

\* The frame loop with frames that keep coming: a frame begins whenever a
\* callback is listed, and every callback of a frame is run.
SpecLoaderFair == SpecLoader /\ WF_vars(AnimationFrame) /\ WF_vars(Main)

\* A step from a paused state to a paused state calls no render and no blit,
\* changes none of the times and lists no callback.
QuietWhilePaused ==
    pc = "looping" /\ ~loop.running /\ ~loop'.running =>
        /\ loop'.did # "render"
        /\ loop'.frameRenders = loop.frameRenders \/ loop'.frameRenders = 0
        /\ loop'.elapsedTime = loop.elapsedTime
        /\ loop'.lastTimestamp = loop.lastTimestamp
        /\ loop'.pending <= loop.pending
\* Nothing but the Space key changes running: it pauses the running loop and
\* resumes the paused one.
SpaceToggles ==
    pc = "looping" /\ loop'.running # loop.running =>
        loop'.did = (IF loop.running THEN "pause" ELSE "resume")
\* demo.initialize has been called once when the loop runs, and no frame
\* callback exists before that.
InitializedOnce ==
    /\ pc = "looping" => loop.initialized = 1
    /\ pc = "ready" => loop = <<>>
\* While the loop runs a callback for main is listed or running, and right
\* after a resume a frame can begin.
CallbackWhileRunning ==
    pc = "looping" /\ loop.running =>
        /\ loop.pending + loop.firing >= 1
        /\ loop.did = "resume" => loop.firing = 0 /\ loop.pending >= 1
\* A frame runs the callbacks listed, and a callback run while the loop runs
\* renders and lists the next.
FrameRenders ==
    /\ pc = "looping" /\ loop'.did = "frame" /\ loop.did # "frame" /\ loop.now = loop'.now =>
           loop'.firing = loop.pending /\ loop'.running = loop.running
    /\ pc = "looping" /\ loop.running /\ loop'.firing < loop.firing =>
           /\ loop'.did = "render"
           /\ loop'.frameRenders = loop.frameRenders + 1
           /\ loop'.pending = loop.pending + 1

-----------------------------------------------------------------------------
(* The times main passes to demo.render.                                    *)

\* (timestamp of the frame - timestamp recorded at load) / 1000, as the
\* program would compute it.
SinceLoad(l) == Div(Sub(Num(l.timestamp), Num(l.loaded)), Num(1000))
Rendering == pc = "looping" /\ loop.did = "render"

\* C27: at every render deltaTime is not negative and elapsedTime is the
\* time from the load to the frame in seconds.
C27_TimesAtRender ==
    Rendering => /\ Le(Num(0), loop.deltaTime)
                 /\ loop.elapsedTime = SinceLoad(loop)

\* What does hold at every render: deltaTime is not negative, it is the time
\* since the frame rendered before (or the load) whatever pauses lay in
\* between, and elapsedTime is within 2^-50 of the time since the load.
DeltaTimeNotNegative == Rendering => Le(Num(0), loop.deltaTime)
ElapsedTimeNear ==
    Rendering => Le(AbsNum(Sub(loop.elapsedTime, SinceLoad(loop))), PowerOfTwo(-50))
ElapsedTimeSums ==
    [][pc = "looping" /\ loop'.did = "render" /\ loop'.firing < loop.firing =>
          /\ loop'.deltaTime = Div(Sub(Num(loop.timestamp), loop.lastTimestamp), Num(1000))
          /\ loop'.elapsedTime = Add(loop.elapsedTime, loop'.deltaTime)
          /\ loop'.lastTimestamp = Num(loop.timestamp)]_vars

-----------------------------------------------------------------------------
(* The clipper, one edge test per step (clip.ts).                           *)

\* The operands of the && chain, in its order.
EdgeNames == <<"left", "right", "top", "bottom">>
\* The arguments delta and distance of the k-th edge test.
EdgeArguments(k, a, clip, deltaX, deltaY) ==
    CASE k = 1 -> <<Neg(deltaX), Sub(a.x, Num(clip.minX))>>
      [] k = 2 -> <<deltaX, Sub(Num(clip.maxX - 1), a.x)>>
      [] k = 3 -> <<Neg(deltaY), Sub(a.y, Num(clip.minY))>>
      [] k = 4 -> <<deltaY, Sub(Num(clip.maxY - 1), a.y)>>

\* testEdge itself, once it is called.
TestEdgeCalled(st, delta, distance) ==
    IF IsZero(delta)
    THEN [st EXCEPT !.ok = Le(Num(0), distance), !.n = @ + 1]
    ELSE TestEdgeAt(st, delta, Div(distance, delta))

\* A chain of & in place of &&: every operand is evaluated.
ChainUnshortened(st) == st.n < 4
\* The && chain: the next operand is evaluated when there is one and none
\* before it was false.
ChainContinues(st) == st.ok /\ st.n < 4

\* clipLineLiangBarsky is entered: the deltas are taken, tMin = 0, tMax = 1.
ClipEnter ==
    /\ pc = "ready"
    /\ call.op = "clipLineLiangBarsky"
    /\ pc' = "clip"
    /\ loop' = [ok |-> TRUE, tMin |-> Num(0), tMax |-> Num(1), n |-> 0, tested |-> <<>>,
                deltaX |-> Sub(call.pts[2].x, call.pts[1].x),
                deltaY |-> Sub(call.pts[2].y, call.pts[1].y)]
    /\ UNCHANGED <<width, height, clipping, backbuffer, before, color, call, writes, ret,
                   heap, triangle>>

\* The next operand of the chain: one call of testEdge.
TestedNext(l, e) ==
    [TestEdgeCalled(l, e[1], e[2]) EXCEPT !.tested = Append(@, EdgeNames[l.n + 1])]
ClipTestEdge ==
    /\ pc = "clip"
    /\ ChainContinues(loop)
    /\ loop' = TestedNext(loop, EdgeArguments(loop.n + 1, call.pts[1], clipping,
                                              loop.deltaX, loop.deltaY))
    /\ UNCHANGED <<width, height, clipping, backbuffer, before, color, pc, call, writes,
                   ret, heap, triangle>>

\* The chain is over: the two points at tMin and tMax, or null.
ClipReturn ==
    /\ pc = "clip"
    /\ ~ChainContinues(loop)
    /\ pc' = "done"
    /\ ret' = ClipPoints(call.pts[1], loop, loop.deltaX, loop.deltaY)
    /\ writes' = <<>>
    /\ before' = backbuffer
    /\ UNCHANGED <<width, height, clipping, backbuffer, color, call, heap, triangle, loop>>

InitClipSteps ==
    \/ \E s \in Sizes, a \in HalfPoints, b \in WholePoints :
          Created(s[1], s[2], Color4Red, ClipCall(a, b))
    \/ \E a \in WholePoints, b \in HalfPoints :
          Created(MaxWidth, MaxHeight, Color4Red, ClipCall(a, b))
    \/ \E pts \in {ExampleAcross, ExampleLeftOf} :
          Created(ExampleClipSize[1], ExampleClipSize[2], Color4Red,
                  ClipCall(pts[1], pts[2]))

NextClipSteps == ClipEnter \/ ClipTestEdge \/ ClipReturn

SpecClipSteps == InitClipSteps /\ [][NextClipSteps]_vars

\* The tests made so far are the first ones of left, right, top, bottom.
TestedInOrder ==
    pc = "clip" \/ (pc = "done" /\ loop # <<>>) =>
        /\ loop.n = Len(loop.tested)
        /\ loop.n <= 4
        /\ \A k \in 1 .. loop.n : loop.tested[k] = EdgeNames[k]
\* After a test that returned false nothing is tested and tMin and tMax stay
\* as they are: the next step returns null.
NothingAfterFalse ==
    pc = "clip" /\ ~loop.ok => pc' = "done" /\ ret' = <<>> /\ loop' = loop
\* The clipper as a whole returns what the steps return, after as many tests.
SteppedClipAsAtOnce ==
    pc = "done" /\ loop # <<>> =>
        /\ ret = ClipLineLiangBarsky(call.pts[1], call.pts[2], clipping)
        /\ loop.n = ClipInterval(call.pts[1], call.pts[2], clipping).n
        /\ ret = <<>> <=> ~loop.ok

\* C28: the edge tests run in the order left, right, top, bottom, and once
\* one has returned false no later one is run and tMin and tMax are not
\* changed before null is returned.
C28_ClipShortCircuits ==
    /\ [](TestedInOrder /\ SteppedClipAsAtOnce)
    /\ [][NothingAfterFalse]_vars

C28_Witness ==
    /\ pc = "done"
    /\ loop # <<>>
    /\ ret = <<>>
    /\ loop.tested = <<"left", "right", "top">>
    /\ loop.tMin # Num(0)

-----------------------------------------------------------------------------
(* The rows of the two halves of a fill.                                    *)

\* The writes of the k-th call of rasterScanlines of the last fill.
ScanWrites(k) ==
    ScansWrites(width, height,
                <<FillFlatScanlineScans(call.pts[1], call.pts[2], call.pts[3])[k]>>, 1)
RowsOf(ws) == {ws[k].y : k \in 1 .. Len(ws)}
Ordered == RasterOrder(call.pts[1], call.pts[2], call.pts[3])
\* The last call filled a triangle with three different y.
GeneralFilled ==
    /\ pc = "done"
    /\ IsFill
    /\ Len(call.pts) = 3
    /\ Lt(Ordered[1].y, Ordered[2].y)
    /\ Lt(Ordered[2].y, Ordered[3].y)
\* The last call filled a triangle without area.
ZeroAreaFilled ==
    /\ pc = "done"
    /\ IsFill
    /\ Len(call.pts) = 3
    /\ Sign(Cross(QPoint(call.pts[1]), QPoint(call.pts[2]), QPoint(call.pts[3]))) = 0

HalvesInTheirRows ==
    GeneralFilled =>
        /\ Len(FillFlatScanlineScans(call.pts[1], call.pts[2], call.pts[3])) = 2
        /\ writes = ScanWrites(1) \o ScanWrites(2)
        /\ RowsOf(ScanWrites(1)) \subseteq Ceil(Ordered[1].y) .. (Ceil(Ordered[2].y) - 1)
        /\ RowsOf(ScanWrites(2)) \subseteq Ceil(Ordered[2].y) .. (Ceil(Ordered[3].y) - 1)
NoPixelTwice ==
    pc = "done" /\ IsFill /\ Len(call.pts) = 3 =>
        \A j, k \in 1 .. Len(writes) : writes[j].i = writes[k].i => j = k
ZeroAreaWritesNothing == ZeroAreaFilled => writes = <<>>

\* C29: in a fill of a general triangle the flat-bottom half writes rows of
\* [ceil(v0.y), ceil(v1.y)) only and the flat-top half rows of
\* [ceil(v1.y), ceil(v2.y)) only, no pixel is written twice, and a triangle
\* without area writes no pixel.
C29_HalvesDisjoint == HalvesInTheirRows /\ NoPixelTwice /\ ZeroAreaWritesNothing

\* The triangles with their three vertices on the line x + y = Slant, in the
\* buffer that holds the line, and the grid triangles in the largest buffer.
Slant == 22
SlantAt(k) == IntPoint(k, Slant - k)
InitSlanted ==
    \/ \E i \in 0 .. Slant : \E j \in i .. Slant : \E k \in j .. Slant :
          Created(Slant + 1, Slant + 1, Color4Red, FillCall(SlantAt(i), SlantAt(j), SlantAt(k)))
    \/ \E a \in WholePoints, b \in WholePoints, c \in WholePoints :
          Created(MaxWidth, MaxHeight, Color4Red, FillCall(a, b, c))

NextSlanted == FillFlatScanline

SpecSlanted == InitSlanted /\ [][NextSlanted]_vars

\* The parts that hold: the rows of the two halves, and no pixel twice.
HalvesDisjointRows == HalvesInTheirRows /\ NoPixelTwice

-----------------------------------------------------------------------------
(* Blitter.create and the bounds the Clipping stores (blitter.ts,           *)
(* clipping.ts).                                                            *)

\* The blitter before create: the singleton exists, its fields are not set.
Uncreated(next) ==
    /\ width = 0
    /\ height = 0
    /\ clipping = <<>>
    /\ backbuffer = <<>>
    /\ before = <<>>
    /\ color = Color4Red
    /\ pc = "ready"
    /\ call = next
    /\ writes = <<>>
    /\ ret = <<>>
    /\ heap = <<>>
    /\ triangle = <<>>
    /\ loop = <<>>

\* blitter.create({ width: w, height: h }): the sizes floored, the clip
\* rectangle of the sizes and the buffer of the new canvas.
BlitterCreate ==
    /\ pc = "ready"
    /\ call.op = "create"
    /\ pc' = "done"
    /\ width' = Floor(call.pts[1])
    /\ height' = Floor(call.pts[2])
    /\ clipping' = CreateClipping(width', height')
    /\ backbuffer' = CreateBackbuffer(width', height')
    /\ before' = backbuffer'
    /\ UNCHANGED <<color, call, writes, ret, heap, triangle, loop>>

\* The sizes created: small ones, whole and with a fraction, and one side
\* around 2^15 with a small other side.
SmallSides == {Half(k) : k \in 2 .. 8}
LargeSides == {Num(32767), Num(32768), Num(32769)}
CreateSizes ==
    (SmallSides \X SmallSides)
        \cup (LargeSides \X {Num(1), Num(2)}) \cup ({Num(1), Num(2)} \X LargeSides)

InitCreate == \E s \in CreateSizes : Uncreated(Call("create", <<s[1], s[2]>>, FALSE))

NextCreate == BlitterCreate

SpecCreate == InitCreate /\ [][NextCreate]_vars

BoundsOfSize ==
    [minX |-> 0, minY |-> 0, maxX |-> Floor(call.pts[1]), maxY |-> Floor(call.pts[2])]

\* C30: after create the clip rectangle is (0, 0, floor(width), floor(height)).
C30_ClippingMatchesSize == pc = "done" /\ call.op = "create" => clipping = BoundsOfSize

\* The same for sizes below 2^15.
ClippingMatchesSmallSize ==
    pc = "done" /\ call.op = "create" /\ width < 32768 /\ height < 32768 =>
        clipping = BoundsOfSize /\ width = Floor(call.pts[1]) /\ height = Floor(call.pts[2])
=============================================================================
